---- MODULE Spec2Model ----
(***************************************************************************)
(* feder8: the ActivityPub protocol handlers (actor, inbox, outbox) over   *)
(* the entity store (Database trait, SqliteDatabase).                      *)
(*                                                                         *)
(* A request handler is a task that suspends at every store call, so each  *)
(* store call is one step of the request that makes it; the code between   *)
(* two store calls runs with the step that precedes it.                    *)
(***************************************************************************)
EXTENDS Integers, Sequences, FiniteSets, TLC

VARIABLES
    actors,      \* table actors: set of DbActor rows
    notes,       \* table notes: set of DbNote rows
    activities,  \* table activities: set of DbActivity rows
    follows,     \* table follows: set of DbFollowRelation rows
    uuids,       \* number of uuid::Uuid::new_v4() values drawn so far
    clock,       \* the value Utc::now() returns
    req,         \* the requests in flight: slot -> handler state
    last         \* the request that finished last, and the store it left

vars == <<actors, notes, activities, follows, uuids, clock, req, last>>

store == [notes |-> notes, activities |-> activities, follows |-> follows]

\* ------------------------------------------------------------------ bounds

MaxUuid == 3
MaxClock == 1
MaxPosts == 2
MaxTargets == 2

\* --------------------------------------------------------------- constants

ServerUrl == "http://localhost:8080"
PageSize == 20

\* uuid::Uuid::new_v4(): the n-th value drawn differs from every earlier one.
Uuid(n) == "u" \o ToString(n)

\* ------------------------------------------------------------ Option, Result

None == [k |-> "none"]
Some(x) == [k |-> "some", v |-> x]
Ok(x) == [k |-> "ok", v |-> x]
Err(e) == [k |-> "err", e |-> e]
Unit == "()"

\* ------------------------------------------------------ serde_json::Value

JAbsent == [k |-> "absent"]
JNull == [k |-> "null"]
JNum(n) == [k |-> "num", n |-> n]
JStr(s) == [k |-> "str", s |-> s]
JArr(a) == [k |-> "arr", a |-> a]
JObj(o) == [k |-> "obj", o |-> o]

\* Value::get(key): the field of an object, nothing for any other value.
get(v, key) ==
    IF v.k = "obj" /\ key \in DOMAIN v.o THEN v.o[key] ELSE JAbsent

\* .and_then(|v| v.as_str()) is Some
is_str(v) == v.k = "str"

\* .and_then(|v| v.as_str()).unwrap_or(d)
as_str_or(v, d) == IF v.k = "str" THEN v.s ELSE d

\* .and_then(|v| v.as_str().map(|s| s.to_string())): Option<String>
as_opt_string(v) == IF v.k = "str" THEN Some(v.s) ELSE None

RECURSIVE filter_strings(_)
filter_strings(a) ==
    IF a = <<>> THEN <<>>
    ELSE (IF Head(a).k = "str" THEN <<Head(a).s>> ELSE <<>>)
         \o filter_strings(Tail(a))

\* .and_then(|v| v.as_array()).map(filter_map as_str).unwrap_or_default()
string_list(v) == IF v.k = "arr" THEN filter_strings(v.a) ELSE <<>>

RECURSIVE to_json_strings(_)
to_json_strings(l) ==
    IF l = <<>> THEN <<>> ELSE <<JStr(Head(l))>> \o to_json_strings(Tail(l))

\* json!(vec_of_strings)
json_list(l) == JArr(to_json_strings(l))

\* object["key"] = value on a clone of object (IndexMut inserts the key)
set_field(v, key, value) ==
    IF v.k = "obj"
    THEN JObj([f \in DOMAIN v.o \cup {key} |->
                  IF f = key THEN value ELSE v.o[f]])
    ELSE JObj([f \in {key} |-> value])

\* -------------------------------------------------------------- timestamps

\* The RFC 3339 strings the payloads carry, with the instant each denotes;
\* instants are counted on the scale of clock, which starts after them.
Rfc3339 == ("2023-01-01T00:00:00Z" :> 0) @@ ("2099-01-01T00:00:00Z" :> 99)

\* chrono::DateTime::parse_from_rfc3339(s).ok().map(with_timezone(Utc))
parse_from_rfc3339(s) == IF s \in DOMAIN Rfc3339 THEN Some(Rfc3339[s]) ELSE None

\* v.as_str().and_then(parse).unwrap_or_else(Utc::now)
published_or_now(v, now) ==
    IF v.k = "str" /\ parse_from_rfc3339(v.s).k = "some"
    THEN parse_from_rfc3339(v.s).v
    ELSE now

\* ------------------------------------------------------------- the store

\* The sqlx errors a statement can end with besides a constraint violation:
\* a transport-level error of the pool.
SqlxFaults == {"PoolTimedOut"}
Outcomes == {"none"} \cup SqlxFaults

\* The sqlx::Error::Database a violated PRIMARY KEY or UNIQUE ends the
\* statement with. The SQLite driver does not implement
\* DatabaseError::constraint(), so db_err.constraint() is None for it.
UniqueViolation == "Database(UNIQUE constraint failed)"

\* A sqlx::Error::Database whose constraint() names the constraint; other
\* drivers than the SQLite one give it.
NamedViolation == "Database(constraint)"

\* impl From<sqlx::Error> for DatabaseError; Query carries err.to_string()
from_sqlx_error(err) ==
    CASE err = "RowNotFound" -> "NotFound"
      [] err = NamedViolation -> "AlreadyExists"
      [] OTHER -> "Query(" \o err \o ")"

\* The DatabaseError of a violated constraint, and of a failed pool.
Duplicate == from_sqlx_error(UniqueViolation)
Backend == from_sqlx_error("PoolTimedOut")

\* The schema's PRIMARY KEY on id: an INSERT of a stored id violates it.
primary_key_violation(table, row) == \E r \in table : r.id = row.id

\* Mutant of insert: INSERT OR REPLACE, the stored row gives way to the new one.
insert_or_replace(table, row, fault) ==
    IF fault # "none"
    THEN [res |-> Err(from_sqlx_error(fault)), rows |-> table]
    ELSE [res |-> Ok(Unit),
          rows |-> {r \in table : r.id # row.id} \cup {row}]

\* sqlx::query!("INSERT INTO <table> ... VALUES ...").execute(&self.pool).await?
insert(table, row, fault) ==
    IF fault # "none"
    THEN [res |-> Err(from_sqlx_error(fault)), rows |-> table]
    ELSE IF primary_key_violation(table, row)
    THEN [res |-> Err(from_sqlx_error(UniqueViolation)), rows |-> table]
    ELSE [res |-> Ok(Unit), rows |-> table \cup {row}]

\* sqlx::query!("SELECT ... WHERE <column> = ?").fetch_optional(&self.pool).await?
fetch_optional(matching, fault) ==
    IF fault # "none" THEN Err(from_sqlx_error(fault))
    ELSE IF matching = {} THEN Ok(None)
    ELSE Ok(Some(CHOOSE r \in matching : TRUE))

get_actor_by_username(username, fault) ==
    fetch_optional({a \in actors : a.username = username}, fault)

get_note_by_id(id, fault) ==
    fetch_optional({n \in notes : n.id = id}, fault)

get_follow_by_id(id, fault) ==
    fetch_optional({f \in follows : f.id = id}, fault)

create_note(note, fault) == insert(notes, note, fault)

create_activity(activity, fault) == insert(activities, activity, fault)

create_follow(follow, fault) == insert(follows, follow, fault)

\* Mutant of update_follow_status: the UPDATE has lost its WHERE clause.
update_follow_status_everywhere(follow_id, status, now, fault) ==
    IF fault # "none"
    THEN [res |-> Err(from_sqlx_error(fault)), rows |-> follows]
    ELSE [res |-> Ok(Unit),
          rows |-> {[f EXCEPT !.status = status, !.updated_at = now] :
                       f \in follows}]

\* UPDATE follows SET status = ?, updated_at = ? WHERE id = ?
update_follow_status(follow_id, status, now, fault) ==
    IF fault # "none"
    THEN [res |-> Err(from_sqlx_error(fault)), rows |-> follows]
    ELSE [res |-> Ok(Unit),
          rows |-> {IF f.id = follow_id
                    THEN [f EXCEPT !.status = status, !.updated_at = now]
                    ELSE f : f \in follows}]

\* SELECT COUNT(*) FROM activities WHERE actor_id = ?
get_actor_outbox_count(actor_id, fault) ==
    IF fault # "none" THEN Err(from_sqlx_error(fault))
    ELSE Ok(Cardinality({a \in activities : a.actor_id = actor_id}))

\* Mutant of Orderings: ORDER BY published, without DESC.
OrderingsOldestFirst(rows) ==
    {s \in [1..Cardinality(rows) -> rows] :
        /\ \A i, j \in DOMAIN s : i # j => s[i] # s[j]
        /\ \A i, j \in DOMAIN s : i < j => s[i].published <= s[j].published}

\* The orders ORDER BY published DESC may return the rows of a set in: rows
\* with equal published come in any order.
Orderings(rows) ==
    {s \in [1..Cardinality(rows) -> rows] :
        /\ \A i, j \in DOMAIN s : i # j => s[i] # s[j]
        /\ \A i, j \in DOMAIN s : i < j => s[i].published >= s[j].published}

Min(a, b) == IF a < b THEN a ELSE b

\* LIMIT ? OFFSET ?
Window(s, limit, offset) == SubSeq(s, offset + 1, Min(Len(s), offset + limit))

\* SELECT ... FROM activities WHERE actor_id = ? ORDER BY published DESC
\* LIMIT ? OFFSET ?: the results the query may give.
get_activities_by_actor(actor_id, limit, offset, fault) ==
    IF fault # "none" THEN {Err(from_sqlx_error(fault))}
    ELSE {Ok(Window(s, limit, offset)) :
             s \in Orderings({a \in activities : a.actor_id = actor_id})}

\* serde_json::to_string(&Vec<String>): the text the recipient columns hold.
\* The strings here are URIs, which need no escaping.
RECURSIVE to_string_items(_)
to_string_items(l) ==
    IF l = <<>> THEN ""
    ELSE IF Len(l) = 1 THEN "\"" \o Head(l) \o "\""
    ELSE "\"" \o Head(l) \o "\"," \o to_string_items(Tail(l))

to_string(l) == "[" \o to_string_items(l) \o "]"

\* text LIKE '%' || pattern || '%': pattern occurs somewhere in text. (LIKE
\* also folds the case of ASCII letters and reads % and _ in the pattern as
\* wildcards; the ids here are in lower case and hold neither.)
like_anywhere(text, pattern) ==
    \/ pattern = ""
    \/ \E i \in 1..(Len(text) - Len(pattern) + 1) :
          SubSeq(text, i, i + Len(pattern) - 1) = pattern

\* WHERE to_recipients LIKE '%' || ? || '%' OR cc_recipients LIKE '%' || ? || '%'
inbox_rows(actor_id) ==
    {a \in activities :
        \/ like_anywhere(to_string(a.to_recipients), actor_id)
        \/ like_anywhere(to_string(a.cc_recipients), actor_id)}

\* SELECT ... FROM activities WHERE <recipients LIKE> ORDER BY published DESC
\* LIMIT ? OFFSET ?: the results the query may give.
get_inbox_activities(actor_id, limit, offset, fault) ==
    IF fault # "none" THEN {Err(from_sqlx_error(fault))}
    ELSE {Ok(Window(s, limit, offset)) : s \in Orderings(inbox_rows(actor_id))}

\* SELECT COUNT(*) FROM activities WHERE <recipients LIKE>
get_actor_inbox_count(actor_id, fault) ==
    IF fault # "none" THEN Err(from_sqlx_error(fault))
    ELSE Ok(Cardinality(inbox_rows(actor_id)))

\* The orders ORDER BY created_at DESC may return the rows of a set in.
OrderingsByCreation(rows) ==
    {s \in [1..Cardinality(rows) -> rows] :
        /\ \A i, j \in DOMAIN s : i # j => s[i] # s[j]
        /\ \A i, j \in DOMAIN s : i < j => s[i].created_at >= s[j].created_at}

\* Mutant of followers_of: the WHERE clause has lost AND status = 'accepted'.
followers_of_any_status(actor_id) ==
    {f \in follows : f.following_id = actor_id}

\* FROM follows WHERE following_id = ? AND status = 'accepted'
followers_of(actor_id) ==
    {f \in follows : f.following_id = actor_id /\ f.status = "accepted"}

\* FROM follows WHERE follower_id = ? AND status = 'accepted'
following_of(actor_id) ==
    {f \in follows : f.follower_id = actor_id /\ f.status = "accepted"}

get_followers(actor_id, limit, offset, fault) ==
    IF fault # "none" THEN {Err(from_sqlx_error(fault))}
    ELSE {Ok(Window(s, limit, offset)) :
             s \in OrderingsByCreation(followers_of(actor_id))}

get_following(actor_id, limit, offset, fault) ==
    IF fault # "none" THEN {Err(from_sqlx_error(fault))}
    ELSE {Ok(Window(s, limit, offset)) :
             s \in OrderingsByCreation(following_of(actor_id))}

get_actor_followers_count(actor_id, fault) ==
    IF fault # "none" THEN Err(from_sqlx_error(fault))
    ELSE Ok(Cardinality(followers_of(actor_id)))

get_actor_following_count(actor_id, fault) ==
    IF fault # "none" THEN Err(from_sqlx_error(fault))
    ELSE Ok(Cardinality(following_of(actor_id)))

\* The schema's UNIQUE on actors.username: an INSERT of a username in use
\* violates it.
username_taken(actor) == \E a \in actors : a.username = actor.username

\* INSERT INTO actors (id, username, ...) VALUES (...)
create_actor(actor, fault) ==
    IF fault = "none" /\ username_taken(actor)
    THEN [res |-> Err(from_sqlx_error(UniqueViolation)), rows |-> actors]
    ELSE insert(actors, actor, fault)

get_actor_by_id(id, fault) ==
    fetch_optional({a \in actors : a.id = id}, fault)

get_activity_by_id(id, fault) ==
    fetch_optional({a \in activities : a.id = id}, fault)

\* UPDATE actors SET name = ?, summary = ?, public_key_pem = ?,
\* private_key_pem = ?, updated_at = ? WHERE id = ?
update_actor(actor, fault) ==
    IF fault # "none"
    THEN [res |-> Err(from_sqlx_error(fault)), rows |-> actors]
    ELSE [res |-> Ok(Unit),
          rows |-> {IF a.id = actor.id
                    THEN [a EXCEPT !.name = actor.name,
                                   !.summary = actor.summary,
                                   !.public_key_pem = actor.public_key_pem,
                                   !.private_key_pem = actor.private_key_pem,
                                   !.updated_at = actor.updated_at]
                    ELSE a : a \in actors}]

\* Mutant of delete_from: a DELETE that removes no row reports RowNotFound.
delete_from_or_not_found(table, id, fault) ==
    IF fault # "none"
    THEN [res |-> Err(from_sqlx_error(fault)), rows |-> table]
    ELSE IF \A r \in table : r.id # id
    THEN [res |-> Err(from_sqlx_error("RowNotFound")), rows |-> table]
    ELSE [res |-> Ok(Unit), rows |-> {r \in table : r.id # id}]

\* sqlx::query!("DELETE FROM <table> WHERE id = ?").execute(&self.pool).await?
delete_from(table, id, fault) ==
    IF fault # "none"
    THEN [res |-> Err(from_sqlx_error(fault)), rows |-> table]
    ELSE [res |-> Ok(Unit), rows |-> {r \in table : r.id # id}]

delete_actor(id, fault) == delete_from(actors, id, fault)

delete_note(id, fault) == delete_from(notes, id, fault)

delete_follow(id, fault) == delete_from(follows, id, fault)

\* ---------------------------------------------------------------- requests

Slots == {1, 2}

NoResp == [status |-> 0, body |-> JAbsent]
NoLoc == [row |-> None, activity_id |-> "", note_id |-> "", total_items |-> 0]

Idle ==
    [pc |-> "idle", route |-> "none", user |-> "", body |-> JAbsent,
     target |-> None, loc |-> NoLoc, resp |-> NoResp, log |-> {}, errs |-> {}]

\* HttpResponse::<Status>().json(body) / .finish()
Respond(q, status, body) ==
    [q EXCEPT !.pc = "done", !.resp = [status |-> status, body |-> body]]

\* warn!(...) / info!(...): the lines a request has logged
Logged(q, line) == [q EXCEPT !.log = @ \cup {line}]

\* The store calls of a request that returned Err, with the error of each.
Noted(q, call, res) ==
    IF res.k = "err" THEN [q EXCEPT !.errs = @ \cup {<<call, res.e>>}] ELSE q

\* Mutant of ErrorBody: the message is sent as a bare JSON string.
error_text(msg) == JStr(msg)

\* serde_json::json!({"error": msg})
ErrorBody(msg) == JObj([error |-> JStr(msg)])

\* Mutant of actor_lookup_failed: a failed lookup is answered like a missing
\* actor.
actor_lookup_failed_as_missing(q, res) ==
    Respond(Logged(q, "warn: actor not found"), 404, ErrorBody("Actor not found"))

\* The first step of all four handlers: the lookup of the actor named in the
\* path. The answer when the actor is missing or the lookup fails.
actor_lookup_failed(q, res) ==
    IF res.k = "err"
    THEN Respond(Logged(q, "warn: get_actor_by_username"), 500,
                 ErrorBody("Internal server error"))
    ELSE Respond(Logged(q, "warn: actor not found"), 404,
                 ErrorBody("Actor not found"))

\* ------------------------------------------------------------ GET /users/{u}

\* Actor::new(..) = ActorBuilder::new(..).build(), as serde serialises it: the
\* fields keep their Rust names but for @context and type; summary and icon
\* are not set by Actor::new and come out as null.
actor_document(db_actor, now) ==
    LET actor_id == ServerUrl \o "/users/" \o db_actor.username IN
    JObj(("@context" :> json_list(<<"https://www.w3.org/ns/activitystreams",
                                    "https://w3id.org/security/v1">>))
         @@ [id |-> JStr(actor_id),
             type |-> JStr("Person"),
             name |-> JStr(db_actor.name),
             preferred_username |-> JStr(db_actor.username),
             summary |-> JNull,
             url |-> JStr(actor_id),
             inbox |-> JStr(actor_id \o "/inbox"),
             outbox |-> JStr(actor_id \o "/outbox"),
             followers |-> JStr(actor_id \o "/followers"),
             following |-> JStr(actor_id \o "/following"),
             public_key |-> JObj([id |-> JStr(actor_id \o "#main-key"),
                                  type |-> JStr("Key"),
                                  owner |-> JStr(actor_id),
                                  public_key_pem |-> JStr(db_actor.public_key_pem)]),
             published |-> JNum(now),
             icon |-> JNull])

get_actor_found(q, db_actor, now) == Respond(q, 200, actor_document(db_actor, now))

\* ------------------------------------------------- GET /.well-known/webfinger

\* str::strip_prefix
strip_prefix(s, prefix) ==
    IF Len(s) >= Len(prefix) /\ SubSeq(s, 1, Len(prefix)) = prefix
    THEN Some(SubSeq(s, Len(prefix) + 1, Len(s)))
    ELSE None

\* The place of the last ch among the first i characters of s, 0 if none.
RECURSIVE rfind(_, _, _)
rfind(s, ch, i) ==
    IF i = 0 THEN 0
    ELSE IF SubSeq(s, i, i) = ch THEN i
    ELSE rfind(s, ch, i - 1)

\* The place of the first ch of s from place i on, 0 if none.
RECURSIVE find(_, _, _)
find(s, ch, i) ==
    IF i > Len(s) THEN 0
    ELSE IF SubSeq(s, i, i) = ch THEN i
    ELSE find(s, ch, i + 1)

\* Mutant of rsplit_once: str::split_once, the split is at the first ch.
split_once(s, ch) ==
    LET i == find(s, ch, 1) IN
    IF i = 0 THEN None
    ELSE Some(<<SubSeq(s, 1, i - 1), SubSeq(s, i + 1, Len(s))>>)

\* str::rsplit_once: the split is at the last ch.
rsplit_once(s, ch) ==
    LET i == rfind(s, ch, Len(s)) IN
    IF i = 0 THEN None
    ELSE Some(<<SubSeq(s, 1, i - 1), SubSeq(s, i + 1, Len(s))>>)

\* str::replace(from, to): every occurrence of from, left to right.
RECURSIVE replace(_, _, _)
replace(s, from, to) ==
    IF Len(s) < Len(from) THEN s
    ELSE IF SubSeq(s, 1, Len(from)) = from
    THEN to \o replace(SubSeq(s, Len(from) + 1, Len(s)), from, to)
    ELSE SubSeq(s, 1, 1) \o replace(SubSeq(s, 2, Len(s)), from, to)

\* config.server_url.replace("http://", "").replace("https://", "")
server_domain == replace(replace(ServerUrl, "http://", ""), "https://", "")

\* WebFingerLink as serde serialises it
webfinger_link(rel, link_type, href) ==
    JObj([rel |-> JStr(rel), type |-> JStr(link_type), href |-> JStr(href)])

\* Mutant of webfinger_response: the resolver answers for stored actors only.
webfinger_stored_only(resource) ==
    LET username == strip_prefix(resource, "acct:")
        split == rsplit_once(username.v, "@")
    IN  IF /\ username.k = "some"
           /\ split.k = "some"
           /\ split.v[2] = server_domain
           /\ \E a \in actors : a.username = split.v[1]
        THEN [status |-> 200,
              body |-> JObj([subject |-> JStr(resource),
                             links |-> JArr(<<
                               webfinger_link("self", "application/activity+json",
                                   ServerUrl \o "/users/" \o split.v[1])>>)])]
        ELSE [status |-> 404, body |-> JAbsent]

\* webfinger: the answer to a query for resource
webfinger_response(resource) ==
    LET username == strip_prefix(resource, "acct:")
        split == rsplit_once(username.v, "@")
    IN  IF /\ username.k = "some"
           /\ split.k = "some"
           /\ split.v[2] = server_domain
        THEN [status |-> 200,
              body |-> JObj([subject |-> JStr(resource),
                             links |-> JArr(<<
                               webfinger_link("self", "application/activity+json",
                                   ServerUrl \o "/users/" \o split.v[1]),
                               webfinger_link("http://webfinger.net/rel/profile-page",
                                   "text/html",
                                   ServerUrl \o "/users/" \o split.v[1])>>)])]
        ELSE [status |-> 404, body |-> JAbsent]

\* ----------------------------------------------------- POST /users/{u}/inbox

\* Mutant of inbox_branch: a Follow is stored whatever its object is.
inbox_branch_any_follow(activity, target_actor) ==
    LET ty == get(activity, "type")
        object == get(activity, "object")
    IN  IF ~is_str(ty) THEN "accepted"
        ELSE CASE ty.s = "Create" ->
                    IF as_str_or(get(object, "type"), "") = "Note"
                       /\ is_str(get(object, "type"))
                    THEN "get_note" ELSE "accepted"
               [] ty.s = "Follow" -> "create_follow"
               [] ty.s = "Accept" ->
                    IF is_str(get(object, "id"))
                    THEN "update_follow_status" ELSE "accepted"
               [] ty.s = "Undo" ->
                    IF is_str(get(object, "type"))
                       /\ get(object, "type").s = "Follow"
                       /\ as_str_or(get(object, "object"), "") = target_actor.id
                    THEN "unfollow" ELSE "accepted"
               [] OTHER -> "unknown"

\* Which store call the inbox handler makes next for this activity, once the
\* target actor is loaded.
inbox_branch(activity, target_actor) ==
    LET ty == get(activity, "type")
        object == get(activity, "object")
    IN  IF ~is_str(ty) THEN "accepted"
        ELSE CASE ty.s = "Create" ->
                    IF as_str_or(get(object, "type"), "") = "Note"
                       /\ is_str(get(object, "type"))
                    THEN "get_note" ELSE "accepted"
               [] ty.s = "Follow" ->
                    IF as_str_or(object, "") = target_actor.id
                    THEN "create_follow" ELSE "accepted"
               [] ty.s = "Accept" ->
                    IF is_str(get(object, "id"))
                    THEN "update_follow_status" ELSE "accepted"
               [] ty.s = "Undo" ->
                    IF is_str(get(object, "type"))
                       /\ get(object, "type").s = "Follow"
                       /\ as_str_or(get(object, "object"), "") = target_actor.id
                    THEN "unfollow" ELSE "accepted"
               [] OTHER -> "unknown"

\* let note_id = object.get("id")....unwrap_or("")
inbox_note_id(activity) == as_str_or(get(get(activity, "object"), "id"), "")

\* Mutant of inbox_note: the recipients of the note are those of the activity.
inbox_note_addressed_as_activity(activity, now) ==
    LET object == get(activity, "object") IN
    [id |-> inbox_note_id(activity),
     attributed_to |-> as_str_or(get(object, "attributedTo"), ""),
     content |-> as_str_or(get(object, "content"), ""),
     to_recipients |-> string_list(get(activity, "to")),
     cc_recipients |-> string_list(get(activity, "cc")),
     published |-> published_or_now(get(object, "published"), now),
     in_reply_to |-> as_opt_string(get(object, "inReplyTo")),
     tags |-> <<>>,
     created_at |-> now]

\* DbNote built from the inner object of a Create
inbox_note(activity, now) ==
    LET object == get(activity, "object") IN
    [id |-> inbox_note_id(activity),
     attributed_to |-> as_str_or(get(object, "attributedTo"), ""),
     content |-> as_str_or(get(object, "content"), ""),
     to_recipients |-> string_list(get(object, "to")),
     cc_recipients |-> string_list(get(object, "cc")),
     published |-> published_or_now(get(object, "published"), now),
     in_reply_to |-> as_opt_string(get(object, "inReplyTo")),
     tags |-> <<>>,
     created_at |-> now]

\* DbActivity built from a Create
inbox_activity(activity, now) ==
    [id |-> as_str_or(get(activity, "id"), ""),
     actor_id |-> as_str_or(get(activity, "actor"), ""),
     activity_type |-> "Create",
     object |-> get(activity, "object"),
     to_recipients |-> string_list(get(activity, "to")),
     cc_recipients |-> string_list(get(activity, "cc")),
     published |-> published_or_now(get(activity, "published"), now),
     created_at |-> now]

\* Mutant of inbox_follow: follower and followed actor change places.
inbox_follow_swapped(activity, uuid, now) ==
    [id |-> ServerUrl \o "/follows/" \o uuid,
     follower_id |-> as_str_or(get(activity, "object"), ""),
     following_id |-> as_str_or(get(activity, "actor"), ""),
     status |-> "pending",
     created_at |-> now,
     updated_at |-> now]

\* Mutant of inbox_follow: the relation is accepted as it is created.
inbox_follow_auto_accepted(activity, uuid, now) ==
    [id |-> ServerUrl \o "/follows/" \o uuid,
     follower_id |-> as_str_or(get(activity, "actor"), ""),
     following_id |-> as_str_or(get(activity, "object"), ""),
     status |-> "accepted",
     created_at |-> now,
     updated_at |-> now]

\* DbFollowRelation built from a Follow
inbox_follow(activity, uuid, now) ==
    [id |-> ServerUrl \o "/follows/" \o uuid,
     follower_id |-> as_str_or(get(activity, "actor"), ""),
     following_id |-> as_str_or(get(activity, "object"), ""),
     status |-> "pending",
     created_at |-> now,
     updated_at |-> now]

\* Mutant of inbox_accepted: a failed store write fails the request, as it
\* does in the outbox handler.
inbox_accepted_unless_failed(q) ==
    IF \E e \in q.errs : e[1] # "get_note_by_id"
    THEN Respond(q, 500, ErrorBody("Internal server error"))
    ELSE Respond(q, 202, JAbsent)

\* Mutant of inbox_accepted: an activity of unknown type is refused.
inbox_accepted_known_only(q) ==
    IF "warn: unknown type" \in q.log
    THEN Respond(q, 400, ErrorBody("Unknown activity type"))
    ELSE Respond(q, 202, JAbsent)

\* The answer of the inbox handler once dispatch is over.
inbox_accepted(q) == Respond(q, 202, JAbsent)

\* What a failed store write does to the inbox request: it is logged.
inbox_write_failed(q, line) == Logged(q, line)

\* The number of uuids the handler of this request may draw.
uuids_needed(route, body) ==
    IF route = "POST outbox" THEN 2
    ELSE IF route = "POST inbox" /\ as_str_or(get(body, "type"), "") = "Follow"
    THEN 1 ELSE 0

\* ---------------------------------------------------- POST /users/{u}/outbox

\* Mutant of outbox_is_create_note: the type of the inner object is not
\* compared with "Note".
outbox_is_create_any(activity) ==
    /\ is_str(get(activity, "type"))
    /\ get(activity, "type").s = "Create"
    /\ is_str(get(get(activity, "object"), "type"))

\* Whether the outbox handler takes the Create/Note branch.
outbox_is_create_note(activity) ==
    /\ is_str(get(activity, "type"))
    /\ get(activity, "type").s = "Create"
    /\ is_str(get(get(activity, "object"), "type"))
    /\ get(get(activity, "object"), "type").s = "Note"

outbox_activity_id(uuid) == ServerUrl \o "/activities/" \o uuid

\* Mutant of outbox_note_id: the id is made from a value drawn once, not from
\* one drawn for each note.
outbox_note_id_drawn_once(uuid) == ServerUrl \o "/notes/" \o Uuid(0)

outbox_note_id(uuid) == ServerUrl \o "/notes/" \o uuid

\* DbNote built from the payload of an outbox Create
outbox_note(activity, actor, note_id, now) ==
    LET object == get(activity, "object") IN
    [id |-> note_id,
     attributed_to |-> actor.id,
     content |-> as_str_or(get(object, "content"), ""),
     to_recipients |-> string_list(get(activity, "to")),
     cc_recipients |-> string_list(get(activity, "cc")),
     published |-> now,
     in_reply_to |-> as_opt_string(get(object, "inReplyTo")),
     tags |-> <<>>,
     created_at |-> now]

\* Mutant of outbox_activity: the payload's object is stored as it came.
outbox_activity_plain_object(activity, actor, activity_id, note_id, now) ==
    [id |-> activity_id,
     actor_id |-> actor.id,
     activity_type |-> "Create",
     object |-> get(activity, "object"),
     to_recipients |-> string_list(get(activity, "to")),
     cc_recipients |-> string_list(get(activity, "cc")),
     published |-> now,
     created_at |-> now]

\* DbActivity built from the payload of an outbox Create
outbox_activity(activity, actor, activity_id, note_id, now) ==
    [id |-> activity_id,
     actor_id |-> actor.id,
     activity_type |-> "Create",
     object |-> set_field(set_field(get(activity, "object"), "id", JStr(note_id)),
                          "attributedTo", JStr(actor.id)),
     to_recipients |-> string_list(get(activity, "to")),
     cc_recipients |-> string_list(get(activity, "cc")),
     published |-> now,
     created_at |-> now]

\* json!({...}) of the created activity
outbox_created_body(db_activity) ==
    JObj([id |-> JStr(db_activity.id),
          type |-> JStr("Create"),
          actor |-> JStr(db_activity.actor_id),
          object |-> db_activity.object,
          to |-> json_list(db_activity.to_recipients),
          cc |-> json_list(db_activity.cc_recipients),
          published |-> JNum(db_activity.published)])

\* The answer of the outbox handler when a store write fails.
outbox_write_failed(q, what) ==
    Respond(Logged(q, "warn: create_" \o what), 500,
            ErrorBody("Failed to create " \o what))

\* ------------------------------------------------------ GET /users/{u}/outbox

\* json!({...}) of a stored activity
outbox_item(activity) ==
    JObj([id |-> JStr(activity.id),
          type |-> JStr(activity.activity_type),
          actor |-> JStr(activity.actor_id),
          object |-> activity.object,
          to |-> json_list(activity.to_recipients),
          cc |-> json_list(activity.cc_recipients),
          published |-> JNum(activity.published)])

RECURSIVE outbox_items(_)
outbox_items(page) ==
    IF page = <<>> THEN <<>>
    ELSE <<outbox_item(Head(page))>> \o outbox_items(Tail(page))

\* OrderedCollection::new(id, total_items, ordered_items)
ordered_collection(id, total_items, ordered_items) ==
    JObj(("@context" :> json_list(<<"https://www.w3.org/ns/activitystreams">>))
         @@ [id |-> JStr(id),
             type |-> JStr("OrderedCollection"),
             totalItems |-> JNum(total_items),
             first |-> JStr(id \o "?page=true"),
             last |-> JStr(id \o "?page=true"),
             orderedItems |-> JArr(ordered_items)])

\* ---------------------------------------------------------------- signature

\* str::split(ch): the parts of s between the occurrences of ch.
RECURSIVE split(_, _)
split(s, ch) ==
    LET i == find(s, ch, 1) IN
    IF i = 0 THEN <<s>>
    ELSE <<SubSeq(s, 1, i - 1)>> \o split(SubSeq(s, i + 1, Len(s)), ch)

\* str::splitn(2, ch): s in one part, or split at the first ch.
splitn2(s, ch) ==
    LET i == find(s, ch, 1) IN
    IF i = 0 THEN <<s>>
    ELSE <<SubSeq(s, 1, i - 1), SubSeq(s, i + 1, Len(s))>>

\* str::trim_matches(ch): every ch at the two ends of s is taken off.
RECURSIVE trim_matches(_, _)
trim_matches(s, ch) ==
    IF s = "" THEN s
    ELSE IF SubSeq(s, 1, 1) = ch THEN trim_matches(SubSeq(s, 2, Len(s)), ch)
    ELSE IF SubSeq(s, Len(s), Len(s)) = ch
    THEN trim_matches(SubSeq(s, 1, Len(s) - 1), ch)
    ELSE s

\* str::trim, for the white space of the headers here: spaces.
trim(s) == trim_matches(s, " ")

\* One part of the header: its key and its value, or the error of a part
\* without "=".
signature_part(part) ==
    LET sp == splitn2(trim(part), "=") IN
    IF Len(sp) < 2 THEN Err("Missing value in signature part")
    ELSE Ok(<<sp[1], trim_matches(sp[2], "\"")>>)

\* collect::<Result<HashMap<String, String>>>(): the first error, or the map
\* of the pairs, where a later pair replaces an earlier one with its key.
RECURSIVE collect(_, _)
collect(parts, map) ==
    IF parts = <<>> THEN Ok(map)
    ELSE LET kv == signature_part(Head(parts)) IN
         IF kv.k = "err" THEN kv
         ELSE collect(Tail(parts),
                      [key \in DOMAIN map \cup {kv.v[1]} |->
                          IF key = kv.v[1] THEN kv.v[2] ELSE map[key]])

\* SignatureService::parse_signature_header
parse_signature_header(signature) == collect(split(signature, ","), <<>>)

Valid == [k |-> "Valid"]
Invalid(reason) == [k |-> "Invalid", reason |-> reason]

\* SignatureService::verify_signature: every header that parses is Valid.
verify_signature(headers, signature) ==
    LET sig_data == parse_signature_header(signature) IN
    IF sig_data.k = "ok" THEN Ok(Valid) ELSE Ok(Invalid(sig_data.e))

\* ----------------------------------------------------------------- delivery

\* StatusCode::is_success
is_success(status) == status >= 200 /\ status < 300

\* A call of the DeliveryService as it starts: the slot of a request, with the
\* inboxes the call was given, the ones it has yet to post to, and the POSTs
\* the client has sent for it.
delivery(call, activity, inboxes) ==
    [pc |-> "send", route |-> call, user |-> "", body |-> activity,
     target |-> None, loc |-> NoLoc, resp |-> NoResp, log |-> {}, errs |-> {},
     inboxes |-> inboxes, targets |-> inboxes, posts |-> <<>>]

\* client.post_with_headers(inbox_url, headers, &activity): one POST is sent,
\* and sent is what the client returns for it.
post_with_headers(q, sent) ==
    [q EXCEPT !.posts = Append(@, [url |-> Head(q.targets), body |-> q.body,
                                   sent |-> sent])]

\* What deliver_activity logs for the outcome of its POST.
deliver_activity_logged(q, sent) ==
    IF sent.k = "err" THEN q
    ELSE IF is_success(sent.v) THEN Logged(q, "info: Successfully delivered")
    ELSE Logged(Logged(q, "warn: Failed to deliver activity"),
                "error: Error response")

\* What deliver_activity returns for the outcome of its POST: the ? on the
\* client's result, and Ok(()) after either branch on the status.
deliver_activity(sent) ==
    IF sent.k = "err" THEN Err(sent.e) ELSE Ok(Unit)

\* Mutant of deliver_next: the loop gives up at the first delivery that fails.
deliver_next_or_give_up(q, res) ==
    IF res.k = "err" THEN Respond(q, 0, res)
    ELSE IF Tail(q.targets) = <<>> THEN Respond(q, 0, Ok(Unit))
    ELSE [q EXCEPT !.targets = Tail(@)]

\* deliver_to_followers / deliver_to_public, the body of the loop once
\* deliver_activity has returned res: a failure is logged, the loop goes on
\* to the next inbox, and after the last one the call returns Ok(()).
deliver_next(q, res) ==
    LET q1 == IF res.k = "err" THEN Logged(q, "warn: Failed to deliver to") ELSE q
    IN  IF Tail(q.targets) = <<>> THEN Respond(q1, 0, Ok(Unit))
        ELSE [q1 EXCEPT !.targets = Tail(@)]

\* ------------------------------------------------------------------ actions

SetReq(r, q) == req' = [req EXCEPT ![r] = q]

\* A request arrives: the handler starts with the path and the parsed body.
Start(r, route, user, body) ==
    /\ req[r].pc = "idle"
    /\ uuids + uuids_needed(route, body) <= MaxUuid
    /\ SetReq(r, [Idle EXCEPT !.pc = "get_actor", !.route = route,
                              !.user = user, !.body = body])
    /\ UNCHANGED <<actors, notes, activities, follows, uuids, clock, last>>

\* The same arrival, for the specifications that let the outbox mint ids for
\* MaxPosts posts.
Begin(r, route, user, body) ==
    /\ req[r].pc = "idle"
    /\ uuids + uuids_needed(route, body) <= 2 * MaxPosts
    /\ SetReq(r, [Idle EXCEPT !.pc = "get_actor", !.route = route,
                              !.user = user, !.body = body])
    /\ UNCHANGED <<actors, notes, activities, follows, uuids, clock, last>>

\* webfinger: the handler makes no store call, it answers in the step in which
\* the request arrives.
Webfinger(r, resource) ==
    /\ req[r].pc = "idle"
    /\ SetReq(r, [Idle EXCEPT !.pc = "done", !.route = "GET webfinger",
                              !.body = JStr(resource),
                              !.resp = webfinger_response(resource)])
    /\ UNCHANGED <<actors, notes, activities, follows, uuids, clock, last>>

\* get_actor / get_outbox / post_outbox / inbox: db.get_actor_by_username, and
\* the code up to the handler's next store call.
GetActor(r) ==
    /\ req[r].pc = "get_actor"
    /\ \E fault \in Outcomes :
        LET q == Noted(req[r], "get_actor_by_username",
                       get_actor_by_username(req[r].user, fault))
            res == get_actor_by_username(q.user, fault)
            found == res.k = "ok" /\ res.v.k = "some"
            a == res.v.v
            at == [q EXCEPT !.target = res.v]
            branch == inbox_branch(q.body, a)
        IN  IF ~found
            THEN SetReq(r, actor_lookup_failed(q, res)) /\ UNCHANGED uuids
            ELSE CASE q.route = "GET actor" ->
                        SetReq(r, get_actor_found(at, a, clock)) /\ UNCHANGED uuids
                   [] q.route = "GET outbox" ->
                        SetReq(r, [at EXCEPT !.pc = "get_actor_outbox_count"])
                        /\ UNCHANGED uuids
                   [] q.route = "POST outbox" ->
                        IF outbox_is_create_note(q.body)
                        THEN /\ uuids' = uuids + 2
                             /\ SetReq(r, [at EXCEPT
                                  !.pc = "create_note",
                                  !.loc.activity_id = outbox_activity_id(Uuid(uuids + 1)),
                                  !.loc.note_id = outbox_note_id(Uuid(uuids + 2)),
                                  !.loc.row = Some(outbox_note(q.body, a,
                                        outbox_note_id(Uuid(uuids + 2)), clock))])
                        ELSE SetReq(r, Respond(at, 201, JAbsent)) /\ UNCHANGED uuids
                   [] q.route = "POST inbox" ->
                        CASE branch = "get_note" ->
                               SetReq(r, [at EXCEPT !.pc = "get_note_by_id"])
                               /\ UNCHANGED uuids
                          [] branch = "create_follow" ->
                               /\ uuids' = uuids + 1
                               /\ SetReq(r, [at EXCEPT
                                    !.pc = "create_follow",
                                    !.loc.row = Some(inbox_follow(q.body,
                                                       Uuid(uuids + 1), clock))])
                          [] branch = "update_follow_status" ->
                               SetReq(r, [at EXCEPT !.pc = "update_follow_status"])
                               /\ UNCHANGED uuids
                          [] branch = "unfollow" ->
                               SetReq(r, inbox_accepted(Logged(at, "info: unfollow")))
                               /\ UNCHANGED uuids
                          [] branch = "unknown" ->
                               SetReq(r, inbox_accepted(Logged(at, "warn: unknown type")))
                               /\ UNCHANGED uuids
                          [] OTHER ->
                               SetReq(r, inbox_accepted(at)) /\ UNCHANGED uuids
    /\ UNCHANGED <<actors, notes, activities, follows, clock, last>>

\* inbox, Create: db.get_note_by_id(&note_id); the note is built when absent.
InboxGetNote(r) ==
    /\ req[r].pc = "get_note_by_id" /\ req[r].route = "POST inbox"
    /\ \E fault \in Outcomes :
        LET res == get_note_by_id(inbox_note_id(req[r].body), fault)
            q == Noted(req[r], "get_note_by_id", res)
        IN  IF res = Ok(None)
            THEN SetReq(r, [q EXCEPT !.pc = "create_note",
                                     !.loc.row = Some(inbox_note(q.body, clock))])
            ELSE SetReq(r, [q EXCEPT !.pc = "create_activity",
                                     !.loc.row = Some(inbox_activity(q.body, clock))])
    /\ UNCHANGED <<actors, notes, activities, follows, uuids, clock, last>>

\* inbox, Create: db.create_note(&db_note); then the activity is built.
InboxCreateNote(r) ==
    /\ req[r].pc = "create_note" /\ req[r].route = "POST inbox"
    /\ \E fault \in Outcomes :
        LET out == create_note(req[r].loc.row.v, fault)
            q == Noted(req[r], "create_note", out.res)
            q1 == IF out.res.k = "err"
                  THEN inbox_write_failed(q, "warn: create_note") ELSE q
        IN  /\ notes' = out.rows
            /\ SetReq(r, [q1 EXCEPT !.pc = "create_activity",
                                    !.loc.row = Some(inbox_activity(q.body, clock))])
    /\ UNCHANGED <<actors, activities, follows, uuids, clock, last>>

\* inbox, Create: db.create_activity(&db_activity), and the answer.
InboxCreateActivity(r) ==
    /\ req[r].pc = "create_activity" /\ req[r].route = "POST inbox"
    /\ \E fault \in Outcomes :
        LET out == create_activity(req[r].loc.row.v, fault)
            q == Noted(req[r], "create_activity", out.res)
            q1 == IF out.res.k = "err"
                  THEN inbox_write_failed(q, "warn: create_activity") ELSE q
        IN  /\ activities' = out.rows
            /\ SetReq(r, inbox_accepted(q1))
    /\ UNCHANGED <<actors, notes, follows, uuids, clock, last>>

\* inbox, Follow: db.create_follow(&db_follow), and the answer.
InboxCreateFollow(r) ==
    /\ req[r].pc = "create_follow" /\ req[r].route = "POST inbox"
    /\ \E fault \in Outcomes :
        LET out == create_follow(req[r].loc.row.v, fault)
            q == Noted(req[r], "create_follow", out.res)
            q1 == IF out.res.k = "err"
                  THEN inbox_write_failed(q, "warn: create_follow")
                  ELSE Logged(q, "info: created follow")
        IN  /\ follows' = out.rows
            /\ SetReq(r, inbox_accepted(q1))
    /\ UNCHANGED <<actors, notes, activities, uuids, clock, last>>

\* Mutant of InboxUpdateFollow: the Accept is also kept as an activity.
InboxUpdateFollowRecorded(r) ==
    /\ req[r].pc = "update_follow_status" /\ req[r].route = "POST inbox"
    /\ \E fault \in Outcomes :
        LET follow_id == get(get(req[r].body, "object"), "id").s
            out == update_follow_status(follow_id, "accepted", clock, fault)
            q == Noted(req[r], "update_follow_status", out.res)
            q1 == IF out.res.k = "err"
                  THEN inbox_write_failed(q, "warn: update_follow_status")
                  ELSE Logged(q, "info: updated follow")
        IN  /\ follows' = out.rows
            /\ activities' = activities \cup
                  {[inbox_activity(req[r].body, clock) EXCEPT !.activity_type = "Accept"]}
            /\ SetReq(r, inbox_accepted(q1))
    /\ UNCHANGED <<actors, notes, uuids, clock, last>>

\* inbox, Accept: db.update_follow_status(follow_id, "accepted"), and the answer.
InboxUpdateFollow(r) ==
    /\ req[r].pc = "update_follow_status" /\ req[r].route = "POST inbox"
    /\ \E fault \in Outcomes :
        LET follow_id == get(get(req[r].body, "object"), "id").s
            out == update_follow_status(follow_id, "accepted", clock, fault)
            q == Noted(req[r], "update_follow_status", out.res)
            q1 == IF out.res.k = "err"
                  THEN inbox_write_failed(q, "warn: update_follow_status")
                  ELSE Logged(q, "info: updated follow")
        IN  /\ follows' = out.rows
            /\ SetReq(r, inbox_accepted(q1))
    /\ UNCHANGED <<actors, notes, activities, uuids, clock, last>>

\* post_outbox, Create: db.create_note(&db_note); then the activity is built.
OutboxCreateNote(r) ==
    /\ req[r].pc = "create_note" /\ req[r].route = "POST outbox"
    /\ \E fault \in Outcomes :
        LET out == create_note(req[r].loc.row.v, fault)
            q == Noted(req[r], "create_note", out.res)
        IN  /\ notes' = out.rows
            /\ IF out.res.k = "err"
               THEN SetReq(r, outbox_write_failed(q, "note"))
               ELSE SetReq(r, [q EXCEPT
                      !.pc = "create_activity",
                      !.loc.row = Some(outbox_activity(q.body, q.target.v,
                                         q.loc.activity_id, q.loc.note_id, clock))])
    /\ UNCHANGED <<actors, activities, follows, uuids, clock, last>>

\* post_outbox, Create: db.create_activity(&db_activity), and the answer.
OutboxCreateActivity(r) ==
    /\ req[r].pc = "create_activity" /\ req[r].route = "POST outbox"
    /\ \E fault \in Outcomes :
        LET out == create_activity(req[r].loc.row.v, fault)
            q == Noted(req[r], "create_activity", out.res)
        IN  /\ activities' = out.rows
            /\ IF out.res.k = "err"
               THEN SetReq(r, outbox_write_failed(q, "activity"))
               ELSE SetReq(r, Respond(q, 201, outbox_created_body(q.loc.row.v)))
    /\ UNCHANGED <<actors, notes, follows, uuids, clock, last>>

\* get_outbox: db.get_actor_outbox_count(&actor.id)
OutboxCount(r) ==
    /\ req[r].pc = "get_actor_outbox_count"
    /\ \E fault \in Outcomes :
        LET res == get_actor_outbox_count(req[r].target.v.id, fault)
            q == Noted(req[r], "get_actor_outbox_count", res)
        IN  IF res.k = "err"
            THEN SetReq(r, Respond(Logged(q, "warn: get_actor_outbox_count"), 500,
                                   ErrorBody("Internal server error")))
            ELSE SetReq(r, [q EXCEPT !.pc = "get_activities_by_actor",
                                     !.loc.total_items = res.v])
    /\ UNCHANGED <<actors, notes, activities, follows, uuids, clock, last>>

\* get_outbox: db.get_activities_by_actor(&actor.id, 20, 0), and the answer.
OutboxList(r) ==
    /\ req[r].pc = "get_activities_by_actor"
    /\ \E fault \in Outcomes :
        \E res \in get_activities_by_actor(req[r].target.v.id, PageSize, 0, fault) :
            LET q == Noted(req[r], "get_activities_by_actor", res) IN
            IF res.k = "err"
            THEN SetReq(r, Respond(Logged(q, "warn: get_activities_by_actor"), 500,
                                   ErrorBody("Internal server error")))
            ELSE SetReq(r, Respond(q, 200,
                    ordered_collection(ServerUrl \o "/users/" \o q.user \o "/outbox",
                                       q.loc.total_items, outbox_items(res.v))))
    /\ UNCHANGED <<actors, notes, activities, follows, uuids, clock, last>>

\* A caller of the Database trait makes one query: the call is the whole
\* request, and its result is the answer.
Query(r, call, actor_id, results) ==
    /\ req[r].pc = "idle"
    /\ \E res \in results :
          SetReq(r, [Idle EXCEPT !.pc = "done", !.route = call, !.user = actor_id,
                                 !.resp = [status |-> 0, body |-> res]])
    /\ UNCHANGED <<actors, notes, activities, follows, uuids, clock, last>>

GetInboxActivities(r, actor_id) ==
    \E fault \in Outcomes :
        Query(r, "get_inbox_activities", actor_id,
              get_inbox_activities(actor_id, PageSize, 0, fault))

GetActorInboxCount(r, actor_id) ==
    \E fault \in Outcomes :
        Query(r, "get_actor_inbox_count", actor_id,
              {get_actor_inbox_count(actor_id, fault)})

GetFollowers(r, actor_id) ==
    \E fault \in Outcomes :
        Query(r, "get_followers", actor_id,
              get_followers(actor_id, PageSize, 0, fault))

GetFollowing(r, actor_id) ==
    \E fault \in Outcomes :
        Query(r, "get_following", actor_id,
              get_following(actor_id, PageSize, 0, fault))

GetActorFollowersCount(r, actor_id) ==
    \E fault \in Outcomes :
        Query(r, "get_actor_followers_count", actor_id,
              {get_actor_followers_count(actor_id, fault)})

GetActorFollowingCount(r, actor_id) ==
    \E fault \in Outcomes :
        Query(r, "get_actor_following_count", actor_id,
              {get_actor_following_count(actor_id, fault)})

\* last when it keeps only the store the last request left.
StoreOnly(st) ==
    [route |-> "none", user |-> "", body |-> JAbsent, resp |-> NoResp, log |-> {},
     errs |-> {}, after |-> st]

\* The four tables.
tables ==
    [actors |-> actors, notes |-> notes, activities |-> activities,
     follows |-> follows]

\* A caller of the Database trait makes one call on the row or id it passes:
\* the call is the whole request, its result is the answer, and last keeps the
\* tables as they were when the call was made.
Call(r, call, id, row, res, after) ==
    /\ req[r].pc = "idle"
    /\ SetReq(r, [Idle EXCEPT !.pc = "done", !.route = call, !.user = id,
                              !.loc.row = row,
                              !.resp = [status |-> 0, body |-> res]])
    /\ last' = StoreOnly(tables)
    /\ actors' = after.actors
    /\ notes' = after.notes
    /\ activities' = after.activities
    /\ follows' = after.follows
    /\ UNCHANGED <<uuids, clock>>

CreateActor(r, actor) ==
    \E fault \in Outcomes :
        LET out == create_actor(actor, fault) IN
        Call(r, "create_actor", actor.id, Some(actor), out.res,
             [tables EXCEPT !.actors = out.rows])

GetActorById(r, id) ==
    \E fault \in Outcomes :
        Call(r, "get_actor_by_id", id, None, get_actor_by_id(id, fault), tables)

GetActorByUsername(r, username) ==
    \E fault \in Outcomes :
        Call(r, "get_actor_by_username", username, None,
             get_actor_by_username(username, fault), tables)

UpdateActor(r, actor) ==
    \E fault \in Outcomes :
        LET out == update_actor(actor, fault) IN
        Call(r, "update_actor", actor.id, Some(actor), out.res,
             [tables EXCEPT !.actors = out.rows])

DeleteActor(r, id) ==
    \E fault \in Outcomes :
        LET out == delete_actor(id, fault) IN
        Call(r, "delete_actor", id, None, out.res,
             [tables EXCEPT !.actors = out.rows])

CreateActivity(r, activity) ==
    \E fault \in Outcomes :
        LET out == create_activity(activity, fault) IN
        Call(r, "create_activity", activity.id, Some(activity), out.res,
             [tables EXCEPT !.activities = out.rows])

GetActivityById(r, id) ==
    \E fault \in Outcomes :
        Call(r, "get_activity_by_id", id, None, get_activity_by_id(id, fault),
             tables)

CreateNote(r, note) ==
    \E fault \in Outcomes :
        LET out == create_note(note, fault) IN
        Call(r, "create_note", note.id, Some(note), out.res,
             [tables EXCEPT !.notes = out.rows])

GetNoteById(r, id) ==
    \E fault \in Outcomes :
        Call(r, "get_note_by_id", id, None, get_note_by_id(id, fault), tables)

DeleteNote(r, id) ==
    \E fault \in Outcomes :
        LET out == delete_note(id, fault) IN
        Call(r, "delete_note", id, None, out.res,
             [tables EXCEPT !.notes = out.rows])

CreateFollow(r, follow) ==
    \E fault \in Outcomes :
        LET out == create_follow(follow, fault) IN
        Call(r, "create_follow", follow.id, Some(follow), out.res,
             [tables EXCEPT !.follows = out.rows])

GetFollowById(r, id) ==
    \E fault \in Outcomes :
        Call(r, "get_follow_by_id", id, None, get_follow_by_id(id, fault), tables)

UpdateFollowStatus(r, id, status) ==
    \E fault \in Outcomes :
        LET out == update_follow_status(id, status, clock, fault) IN
        Call(r, "update_follow_status", id, None, out.res,
             [tables EXCEPT !.follows = out.rows])

DeleteFollow(r, id) ==
    \E fault \in Outcomes :
        LET out == delete_follow(id, fault) IN
        Call(r, "delete_follow", id, None, out.res,
             [tables EXCEPT !.follows = out.rows])

\* verify_signature(headers, signature) is called: the call is the whole
\* request, and its result is the answer.
VerifySignature(r, headers, signature) ==
    /\ req[r].pc = "idle"
    /\ SetReq(r, [Idle EXCEPT !.pc = "done", !.route = "verify_signature",
                              !.body = JStr(signature),
                              !.resp = [status |-> 0,
                                        body |-> verify_signature(headers, signature)]])
    /\ UNCHANGED <<actors, notes, activities, follows, uuids, clock, last>>

\* A POST to the inbox arrives with its Signature header, or without one.
\* The route hands the handler the path, the body, the configuration and the
\* store; verification is what a verification of the header has found, and
\* nothing on the way to the handler sets it.
Inbound(r, user, body, signature) ==
    /\ req[r].pc = "idle"
    /\ uuids + uuids_needed("POST inbox", body) <= MaxUuid
    /\ SetReq(r, [signature |-> signature, verification |-> None]
                 @@ [Idle EXCEPT !.pc = "get_actor", !.route = "POST inbox",
                                 !.user = user, !.body = body])
    /\ UNCHANGED <<actors, notes, activities, follows, uuids, clock, last>>

\* deliver_activity(inbox_url, activity) is called.
DeliverActivity(r, inbox_url, activity) ==
    /\ req[r].pc = "idle"
    /\ SetReq(r, delivery("deliver_activity", activity, <<inbox_url>>))
    /\ UNCHANGED <<actors, notes, activities, follows, uuids, clock, last>>

\* deliver_to_followers(activity, followers) or deliver_to_public(activity,
\* public_inboxes) is called: with no inbox to post to it returns at once.
DeliverTo(r, call, activity, inboxes) ==
    /\ req[r].pc = "idle"
    /\ SetReq(r, IF inboxes = <<>>
                 THEN Respond(delivery(call, activity, inboxes), 0, Ok(Unit))
                 ELSE delivery(call, activity, inboxes))
    /\ UNCHANGED <<actors, notes, activities, follows, uuids, clock, last>>

DeliverToFollowers(r, activity, followers) ==
    DeliverTo(r, "deliver_to_followers", activity, followers)

DeliverToPublic(r, activity, public_inboxes) ==
    DeliverTo(r, "deliver_to_public", activity, public_inboxes)

\* The POST to the next inbox is sent and the client returns; what follows
\* runs up to the next POST, or to the return of the call.
Send(r, sent) ==
    /\ req[r].pc = "send"
    /\ LET q == deliver_activity_logged(post_with_headers(req[r], sent), sent)
           res == deliver_activity(sent)
       IN  SetReq(r, IF q.route = "deliver_activity"
                     THEN Respond(q, 0, res)
                     ELSE deliver_next(q, res))
    /\ UNCHANGED <<actors, notes, activities, follows, uuids, clock, last>>

\* The handler ids register_handler was called with.
Registered == {"actor", "inbox"}

\* ActixServer::start, the route closure. A request is routed to a worker
\* thread with the handler id of its route: the context is built, and the
\* next thing the task does is handlers.lock().
Routed(r, handler_id, worker) ==
    /\ req[r].pc = "idle"
    /\ SetReq(r, [handler_id |-> handler_id, worker |-> worker,
                  handlers_lock |-> FALSE]
                 @@ [Idle EXCEPT !.pc = "lock", !.route = "ActixServer"])
    /\ UNCHANGED <<actors, notes, activities, follows, uuids, clock, last>>

\* The task of slot s holds the guard of the handlers mutex.
holds_handlers_lock(s) == req[s].route = "ActixServer" /\ req[s].handlers_lock

\* let handlers_lock = handlers.lock().unwrap() has returned: the handler of
\* the route is looked up and handler.handle(context) runs to its first
\* suspension with the guard alive; without a handler the answer is 404.
locked(q) ==
    IF q.handler_id \in Registered
    THEN [q EXCEPT !.pc = "handle", !.handlers_lock = TRUE]
    ELSE Respond(q, 404, ErrorBody("Handler not found"))

\* handlers.lock(): the mutex is free and the task takes it; or a task of
\* the same thread holds it, and std::sync::Mutex leaves open whether the
\* second lock of a thread panics or never returns. A task whose thread is
\* not the holder's waits in lock() until the mutex is free.
Lock(r) ==
    /\ req[r].pc = "lock"
    /\ IF \A s \in Slots : ~holds_handlers_lock(s)
       THEN SetReq(r, locked(req[r]))
       ELSE /\ \E s \in Slots : holds_handlers_lock(s) /\ req[s].worker = req[r].worker
            /\ \/ SetReq(r, [req[r] EXCEPT !.pc = "deadlock"])
               \/ SetReq(r, Logged(Respond(req[r], 0, JAbsent), "panic"))
    /\ UNCHANGED <<actors, notes, activities, follows, uuids, clock, last>>

\* handler.handle(context).await returns on a thread that is not stuck in
\* lock(): the response is built, or 500 for an Err, and the guard is dropped
\* with the end of the block.
Handled(r, result) ==
    /\ req[r].pc = "handle"
    /\ \A s \in Slots :
          ~(req[s].pc = "deadlock" /\ req[s].worker = req[r].worker)
    /\ LET q == [req[r] EXCEPT !.handlers_lock = FALSE] IN
       SetReq(r, IF result.k = "ok" THEN Respond(q, result.v, JAbsent)
                 ELSE Respond(q, 500, ErrorBody(result.e)))
    /\ UNCHANGED <<actors, notes, activities, follows, uuids, clock, last>>

\* The response is sent and the request is over; last keeps the store it left.
Finish(r) ==
    /\ req[r].pc = "done"
    /\ SetReq(r, Idle)
    /\ last' = StoreOnly(store)
    /\ UNCHANGED <<actors, notes, activities, follows, uuids, clock>>

\* The same, and last keeps the request and its answer as well.
FinishRecorded(r) ==
    /\ req[r].pc = "done"
    /\ SetReq(r, Idle)
    /\ last' = [route |-> req[r].route, user |-> req[r].user, body |-> req[r].body,
                resp |-> req[r].resp, log |-> req[r].log, errs |-> req[r].errs,
                after |-> store]
    /\ UNCHANGED <<actors, notes, activities, follows, uuids, clock>>

\* Time passes.
Tick ==
    /\ clock <= MaxClock
    /\ clock' = clock + 1
    /\ UNCHANGED <<actors, notes, activities, follows, uuids, req, last>>

\* ----------------------------------------------------------------- payloads

Bob == "bob"
Ghost == "ghost"
BobId == ServerUrl \o "/users/" \o Bob
RemoteAlice == "https://remote/users/alice"
RemoteCarol == "https://remote/users/carol"
Public == "https://www.w3.org/ns/activitystreams#Public"
Note1 == "https://remote/n/1"
Create1 == "https://remote/a/1"
Create2 == "https://remote/a/2"
Follow1 == "https://remote/a/follow/1"

\* The document with the fields of o that are present.
Doc(o) == JObj([f \in {g \in DOMAIN o : o[g] # JAbsent} |-> o[f]])

NoteObject(id, content, published) ==
    Doc([type |-> JStr("Note"), id |-> id,
         attributedTo |-> JStr(RemoteAlice), content |-> content,
         to |-> json_list(<<BobId>>), cc |-> json_list(<<Public>>),
         published |-> published])

CreateBody(id, object, published) ==
    Doc([type |-> JStr("Create"), id |-> id, actor |-> JStr(RemoteAlice),
         object |-> object, to |-> json_list(<<BobId>>), published |-> published])

FollowBody(actor, object) ==
    Doc([type |-> JStr("Follow"), id |-> JStr(Follow1),
         actor |-> actor, object |-> object])

AcceptBody(object) ==
    Doc([type |-> JStr("Accept"), id |-> JStr("https://remote/a/accept/1"),
         actor |-> JStr(RemoteAlice), object |-> object])

UndoBody(actor, object) ==
    Doc([type |-> JStr("Undo"), id |-> JStr("https://remote/a/undo/1"),
         actor |-> actor, object |-> object])

FollowDoc(id, object) ==
    Doc([type |-> JStr("Follow"), id |-> id, actor |-> JStr(RemoteAlice),
         object |-> object])

FollowIds == {ServerUrl \o "/follows/" \o Uuid(n) : n \in 1..MaxUuid}

InboxCreates ==
    {CreateBody(JStr(Create1),
                NoteObject(JStr(Note1), JStr("hello"), JStr("2023-01-01T00:00:00Z")),
                JStr("2023-01-01T00:00:00Z")),
     CreateBody(JStr(Create2),
                NoteObject(JStr(Note1), JStr("hello"), JStr("yesterday")),
                JAbsent),
     CreateBody(JStr(Create1), Doc([type |-> JStr("Article"), id |-> JStr(Note1)]),
                JAbsent)}

InboxFollows ==
    {FollowBody(JStr(RemoteAlice), JStr(BobId)),
     FollowBody(JStr(RemoteCarol), JStr(BobId)),
     FollowBody(JStr(RemoteAlice), JStr("https://elsewhere/users/dave"))}

\* Follows whose object is not the id of bob: the id of somebody else, bob's
\* id with a trailing slash, bob's username, no object, a number, and bob's
\* actor document in place of its id.
InboxOtherFollows ==
    {FollowBody(JStr(RemoteAlice), JStr("https://elsewhere/users/dave")),
     FollowBody(JStr(RemoteAlice), JStr(BobId \o "/")),
     FollowBody(JStr(RemoteCarol), JStr(Bob)),
     FollowBody(JStr(RemoteAlice), JAbsent),
     FollowBody(JStr(RemoteCarol), JNum(7)),
     FollowBody(JStr(RemoteAlice),
                Doc([type |-> JStr("Person"), id |-> JStr(BobId)]))}

\* A Create of a Note with the recipients given: those of the inner object
\* and those of the activity.
AddressedCreate(id, object_to, object_cc, to, cc) ==
    Doc([type |-> JStr("Create"), id |-> id, actor |-> JStr(RemoteAlice),
         object |-> Doc([type |-> JStr("Note"), id |-> JStr(Note1),
                         content |-> JStr("hello"),
                         to |-> object_to, cc |-> object_cc]),
         to |-> to, cc |-> cc])

\* Creates with no recipient lists, with empty ones, and with lists of the
\* note and of the activity that differ in order, in length and in repeats.
AddressedBodies(id) ==
    {AddressedCreate(id, JAbsent, JAbsent, JAbsent, JAbsent),
     AddressedCreate(id, JArr(<<>>), JArr(<<>>), JArr(<<>>), JAbsent),
     AddressedCreate(id, json_list(<<BobId, Public>>), json_list(<<Public>>),
                     json_list(<<Public, BobId>>), json_list(<<BobId, BobId>>)),
     AddressedCreate(id, json_list(<<Public, BobId>>), JAbsent,
                     json_list(<<BobId, Public>>), json_list(<<Public>>))}

InboxAccepts ==
    {AcceptBody(FollowDoc(JStr(id), JStr(RemoteAlice))) : id \in FollowIds}
    \cup {AcceptBody(FollowDoc(JStr(Follow1), JStr(RemoteAlice))),
          AcceptBody(JStr(ServerUrl \o "/follows/" \o Uuid(1)))}

InboxUndos ==
    {UndoBody(JStr(RemoteAlice), FollowDoc(JStr(Follow1), JStr(BobId))),
     UndoBody(JStr(RemoteAlice), Doc([type |-> JStr("Like")]))}

InboxOthers ==
    {Doc([type |-> JStr("Like"), actor |-> JStr(RemoteAlice)]),
     Doc([actor |-> JStr(RemoteAlice)])}

InboxBodies ==
    InboxCreates \cup InboxFollows \cup InboxAccepts \cup InboxUndos \cup InboxOthers

OutboxBodies ==
    {Doc([type |-> JStr("Create"),
          object |-> Doc([type |-> JStr("Note"), content |-> JStr("hi"),
                          to |-> json_list(<<Public>>)]),
          to |-> json_list(<<Public>>)]),
     Doc([type |-> JStr("Create"), object |-> Doc([type |-> JStr("Article")])]),
     Doc([type |-> JStr("Like")]),
     Doc([object |-> JStr(BobId)])}

\* The bodies posted to the outbox where two posts fit: a Create of a Note, and
\* the bodies the handler accepts without storing anything.
OutboxPosts ==
    OutboxBodies \cup {Doc([type |-> JNum(1), object |-> Doc([type |-> JStr("Note")])])}

\* Creates delivered to the inbox that name the local actor as their actor:
\* one carries a published time long past, the other one yet to come.
InboxBackdated ==
    {Doc([type |-> JStr("Create"), id |-> JStr(Create1), actor |-> JStr(BobId),
          object |-> NoteObject(JStr(Note1), JStr("hello"), JAbsent),
          published |-> JStr("2023-01-01T00:00:00Z")]),
     Doc([type |-> JStr("Create"), id |-> JStr(Create2), actor |-> JStr(BobId),
          object |-> NoteObject(JStr(Note1), JStr("hello"), JAbsent),
          published |-> JStr("2099-01-01T00:00:00Z")])}

\* The resources WebFinger is queried for: well formed ones for a stored and
\* for an unknown user, for a user name that holds an '@' and for an empty
\* one; then the malformed ones and the ones of other hosts.
Resources ==
    {"acct:bob@localhost:8080",
     "acct:ghost@localhost:8080",
     "acct:a@b@localhost:8080",
     "acct:@localhost:8080",
     "bob@localhost:8080",
     "mailto:bob@localhost:8080",
     "acct:boblocalhost:8080",
     "acct:bob@remote.example",
     "acct:bob@localhost",
     "acct:bob@localhost:8080@",
     "acct:bob@http://localhost:8080",
     "acct:bob@localhost:8080/",
     ""}

\* An id that BobId is a proper prefix of.
BobbyId == BobId \o "by"

\* Creates delivered to the inbox, addressed to the local actor, to the
\* actor whose id extends the local one, and to neither.
InboxAddressed ==
    {Doc([type |-> JStr("Create"), id |-> JStr(Create1), actor |-> JStr(RemoteAlice),
          object |-> Doc([type |-> JStr("Note"), id |-> JStr(Note1)]),
          to |-> json_list(<<BobId>>)]),
     Doc([type |-> JStr("Create"), id |-> JStr(Create2), actor |-> JStr(RemoteAlice),
          object |-> Doc([type |-> JStr("Note"), id |-> JStr(Note1)]),
          to |-> json_list(<<Public>>), cc |-> json_list(<<BobbyId>>)]),
     Doc([type |-> JStr("Create"), id |-> JStr("https://remote/a/3"),
          actor |-> JStr(RemoteAlice),
          object |-> Doc([type |-> JStr("Note"), id |-> JStr(Note1)]),
          to |-> json_list(<<Public>>)])}

\* The actors the store is queried for.
QueryActors == {BobId, BobbyId, RemoteAlice}

\* Rows a caller of the Database trait passes: for each table two rows with
\* the same id and different values, and for actors also a row with a new id
\* and the username of a stored one.
Bobby == "bobby"

BobRenamed ==
    [id |-> BobId, username |-> Bob, name |-> "Robert", summary |-> Some("hi"),
     public_key_pem |-> "PEM2", private_key_pem |-> None,
     created_at |-> 0, updated_at |-> 1]

BobTwin ==
    [id |-> ServerUrl \o "/users/bob2", username |-> Bob, name |-> "Bob",
     summary |-> None, public_key_pem |-> "PEM", private_key_pem |-> None,
     created_at |-> 1, updated_at |-> 1]

BobbyActor ==
    [id |-> BobbyId, username |-> Bobby, name |-> "Bobby", summary |-> None,
     public_key_pem |-> "PEM", private_key_pem |-> None,
     created_at |-> 1, updated_at |-> 1]

ActorRows == {BobRenamed, BobTwin, BobbyActor}

ActorIds == {BobId, BobbyId}

NoteCreates ==
    {CreateBody(JStr(Create1), NoteObject(JStr(Note1), JStr(c), JAbsent), JAbsent) :
        c \in {"hello", "edited"}}

NoteRows == {inbox_note(b, 1) : b \in NoteCreates}

ActivityRows == {inbox_activity(b, 1) : b \in NoteCreates}

FollowRows ==
    {inbox_follow(FollowBody(JStr(a), JStr(BobId)), Uuid(1), 1) :
        a \in {RemoteAlice, RemoteCarol}}

FollowStatuses == {"accepted", "rejected"}

\* What a caller of the Database trait may pass as the status of a relation:
\* status is a String in DbFollowRelation and a &str in update_follow_status.
AnyStatuses == {"pending", "accepted", "rejected", "blocked", ""}

AnyFollowRows ==
    {[inbox_follow(FollowBody(JStr(RemoteAlice), JStr(BobId)), Uuid(n), 1)
        EXCEPT !.status = st] : n \in 1..MaxUuid, st \in AnyStatuses}

\* An actor as the configured mock store and the tests hold it: its id is
\* under https://example.com whatever the server url is.
TestUser == "testuser"

TestUserId == "https://example.com/users/" \o TestUser

TestUserActor ==
    [id |-> TestUserId, username |-> TestUser, name |-> "Test User testuser",
     summary |-> Some("A test user"), public_key_pem |-> "PEM",
     private_key_pem |-> Some("KEY"), created_at |-> 1, updated_at |-> 1]

\* Follows of the local actors, by the id their documents carry and by the id
\* they are stored under.
AdvertisedFollows ==
    {FollowBody(JStr(RemoteAlice), JStr(id)) :
        id \in {BobId, ServerUrl \o "/users/" \o TestUser, TestUserId}}

\* Deliveries that carry their ids and their actor, and ones that omit the
\* id of the note, the id of the activity, or the actor.
InboxKeyed ==
    {CreateBody(id, NoteObject(note_id, JStr("hello"), JAbsent), JAbsent) :
        id \in {JStr(Create1), JAbsent}, note_id \in {JStr(Note1), JAbsent}}
    \cup {FollowBody(actor, JStr(BobId)) : actor \in {JStr(RemoteAlice), JAbsent}}

Usernames == {Bob, Ghost}

\* The inboxes deliveries go to, the lists of at most MaxTargets of them, and
\* what the client can return for a POST: a response with a status, or an
\* error of the transport.
RemoteInboxes == {RemoteAlice \o "/inbox", RemoteCarol \o "/inbox"}

RECURSIVE ListsOf(_, _)
ListsOf(S, n) ==
    IF n = 0 THEN {<<>>}
    ELSE ListsOf(S, n - 1)
         \cup {Append(l, x) : l \in {m \in ListsOf(S, n - 1) : Len(m) = n - 1},
                              x \in S}

TargetLists == ListsOf(RemoteInboxes, MaxTargets)

Statuses == {199, 200, 204, 299, 300, 404, 500}

SendOutcomes == {Ok(st) : st \in Statuses} \cup {Err("error sending request")}

DeliveredActivity ==
    Doc([type |-> JStr("Create"), id |-> JStr(ServerUrl \o "/activities/u1"),
         actor |-> JStr(BobId), to |-> json_list(<<Public>>)])

\* Signature headers: the one of the tests, the same with white space and
\* with a field no rule names, headers without keyId, without signature and
\* without both, and texts that are no list of key=value fields.
KeyId == "https://remote/users/alice#main-key"

SignatureHeaders ==
    {"keyId=\"" \o KeyId \o "\",algorithm=\"rsa-sha256\",signature=\"c2ln\"",
     "keyId=\"" \o KeyId \o "\", signature=\"c2ln\"",
     "keyId=\"" \o KeyId \o "\",signature=\"a=b\",created=1",
     "algorithm=\"rsa-sha256\",signature=\"c2ln\"",
     "keyId=\"" \o KeyId \o "\",algorithm=\"rsa-sha256\"",
     "algorithm=\"rsa-sha256\"",
     "keyid=\"" \o KeyId \o "\",Signature=\"c2ln\"",
     "keyId=\"" \o KeyId \o "\",signature=\"c2ln\",",
     "garbage",
     ""}

\* The headers verify_signature is handed besides the signature.
RequestHeaders == [host |-> "localhost:8080", date |-> "Mon, 01 Jan 2024 12:00:00 GMT"]

\* Outbox posts of a note addressed to remote actors.
FanoutBodies ==
    {Doc([type |-> JStr("Create"),
          to |-> json_list(<<RemoteAlice>>), cc |-> json_list(cc),
          object |-> Doc([type |-> JStr("Note"), content |-> JStr("hi"),
                          to |-> json_list(<<RemoteAlice>>)])]) :
        cc \in {<<>>, <<RemoteCarol>>}}

\* The handler ids of the routes, the worker threads, and what a handler
\* returns.
HandlerIds == {"actor", "inbox", "unregistered"}

Workers == {1, 2}

HandleResults == {Ok(200), Ok(202), Err("handler failed")}

\* --------------------------------------------------------------------- Init

\* The actor created at bootstrap.
BobActor ==
    [id |-> BobId, username |-> Bob, name |-> "Bob", summary |-> None,
     public_key_pem |-> "PEM", private_key_pem |-> None,
     created_at |-> 0, updated_at |-> 0]

EmptyStore == [notes |-> {}, activities |-> {}, follows |-> {}]

Init ==
    /\ actors = {BobActor}
    /\ notes = {}
    /\ activities = {}
    /\ follows = {}
    /\ uuids = 0
    /\ clock = 1
    /\ req = [r \in Slots |-> Idle]
    /\ last = StoreOnly(EmptyStore)

\* ------------------------------------------------------------ specifications

\* The HTTP surface, one request at a time, all within one reading of the
\* clock.
Arrive(r) ==
    \/ \E u \in Usernames : Start(r, "GET actor", u, JAbsent)
    \/ \E u \in Usernames : Start(r, "GET outbox", u, JAbsent)
    \/ \E u \in Usernames, b \in OutboxBodies : Start(r, "POST outbox", u, b)
    \/ \E u \in Usernames, b \in InboxBodies : Start(r, "POST inbox", u, b)

Next ==
    \/ Arrive(1)
    \/ GetActor(1)
    \/ InboxGetNote(1)
    \/ InboxCreateNote(1)
    \/ InboxCreateActivity(1)
    \/ InboxCreateFollow(1)
    \/ InboxUpdateFollow(1)
    \/ OutboxCreateNote(1)
    \/ OutboxCreateActivity(1)
    \/ OutboxCount(1)
    \/ OutboxList(1)
    \/ Finish(1)

Spec == Init /\ [][Next]_vars

\* Follow, Accept and Undo delivered to the inbox one at a time, while time
\* passes.
NextFollow ==
    \/ \E u \in Usernames, b \in InboxFollows \cup InboxAccepts \cup InboxUndos :
          Start(1, "POST inbox", u, b)
    \/ GetActor(1)
    \/ InboxCreateFollow(1)
    \/ InboxUpdateFollow(1)
    \/ Finish(1)
    \/ Tick

SpecFollow == Init /\ [][NextFollow]_vars

\* Create delivered to the inbox one at a time, while time passes; last keeps
\* the delivery before the current one.
NextRedelivery ==
    \/ \E u \in Usernames, b \in InboxCreates : Start(1, "POST inbox", u, b)
    \/ GetActor(1)
    \/ InboxGetNote(1)
    \/ InboxCreateNote(1)
    \/ InboxCreateActivity(1)
    \/ FinishRecorded(1)
    \/ Tick

SpecRedelivery == Init /\ [][NextRedelivery]_vars

\* Two connections deliver Create to the inbox at the same time: the steps of
\* the two handlers interleave at their store calls.
NextConcurrent ==
    \/ \E r \in Slots, u \in Usernames, b \in InboxCreates :
          Start(r, "POST inbox", u, b)
    \/ \E r \in Slots : GetActor(r)
    \/ \E r \in Slots : InboxGetNote(r)
    \/ \E r \in Slots : InboxCreateNote(r)
    \/ \E r \in Slots : InboxCreateActivity(r)
    \/ \E r \in Slots : Finish(r)
    \/ Tick

SpecConcurrent == Init /\ [][NextConcurrent]_vars

\* The outbox of the local actors: posts and listings one at a time, between
\* deliveries to the inbox, all within one reading of the clock; last keeps
\* the request before the current one.
NextOutbox ==
    \/ \E u \in Usernames, b \in OutboxPosts : Begin(1, "POST outbox", u, b)
    \/ \E u \in Usernames : Begin(1, "GET outbox", u, JAbsent)
    \/ \E b \in InboxBackdated : Begin(1, "POST inbox", Bob, b)
    \/ GetActor(1)
    \/ InboxGetNote(1)
    \/ InboxCreateNote(1)
    \/ InboxCreateActivity(1)
    \/ OutboxCreateNote(1)
    \/ OutboxCreateActivity(1)
    \/ OutboxCount(1)
    \/ OutboxList(1)
    \/ FinishRecorded(1)

SpecOutbox == Init /\ [][NextOutbox]_vars

\* Discovery: WebFinger queries and the GET of actor documents, one request at
\* a time; last keeps the request before the current one.
NextWebfinger ==
    \/ \E resource \in Resources : Webfinger(1, resource)
    \/ \E u \in Usernames : Start(1, "GET actor", u, JAbsent)
    \/ GetActor(1)
    \/ FinishRecorded(1)

SpecWebfinger == Init /\ [][NextWebfinger]_vars

\* One body for each branch of the inbox handler, and for each of the outbox
\* handler.
SurfaceInbox ==
    {CreateBody(JStr(Create1),
                NoteObject(JStr(Note1), JStr("hello"), JStr("2023-01-01T00:00:00Z")),
                JStr("2023-01-01T00:00:00Z")),
     FollowBody(JStr(RemoteAlice), JStr(BobId)),
     AcceptBody(FollowDoc(JStr(ServerUrl \o "/follows/" \o Uuid(1)), JStr(RemoteAlice))),
     UndoBody(JStr(RemoteAlice), FollowDoc(JStr(Follow1), JStr(BobId))),
     Doc([type |-> JStr("Like"), actor |-> JStr(RemoteAlice)])}

SurfaceOutbox ==
    {Doc([type |-> JStr("Create"),
          object |-> Doc([type |-> JStr("Note"), content |-> JStr("hi")])]),
     Doc([type |-> JStr("Like")])}

\* Every endpoint of the server, one request at a time.
NextSurface ==
    \/ \E resource \in Resources : Webfinger(1, resource)
    \/ \E u \in Usernames : Start(1, "GET actor", u, JAbsent)
    \/ \E u \in Usernames : Start(1, "GET outbox", u, JAbsent)
    \/ \E u \in Usernames, b \in SurfaceOutbox : Start(1, "POST outbox", u, b)
    \/ \E u \in Usernames, b \in SurfaceInbox : Start(1, "POST inbox", u, b)
    \/ GetActor(1)
    \/ InboxGetNote(1)
    \/ InboxCreateNote(1)
    \/ InboxCreateActivity(1)
    \/ InboxCreateFollow(1)
    \/ InboxUpdateFollow(1)
    \/ OutboxCreateNote(1)
    \/ OutboxCreateActivity(1)
    \/ OutboxCount(1)
    \/ OutboxList(1)
    \/ Finish(1)

SpecSurface == Init /\ [][NextSurface]_vars

\* The store under its queries: deliveries to the inbox fill it, one at a
\* time, and between them a caller of the Database trait reads the inbox and
\* the follow relations of an actor.
NextStore ==
    \/ \E b \in InboxAddressed \cup InboxFollows \cup InboxAccepts :
          Start(1, "POST inbox", Bob, b)
    \/ GetActor(1)
    \/ InboxGetNote(1)
    \/ InboxCreateNote(1)
    \/ InboxCreateActivity(1)
    \/ InboxCreateFollow(1)
    \/ InboxUpdateFollow(1)
    \/ \E a \in QueryActors : GetInboxActivities(1, a)
    \/ \E a \in QueryActors : GetActorInboxCount(1, a)
    \/ \E a \in QueryActors : GetFollowers(1, a)
    \/ \E a \in QueryActors : GetFollowing(1, a)
    \/ \E a \in QueryActors : GetActorFollowersCount(1, a)
    \/ \E a \in QueryActors : GetActorFollowingCount(1, a)
    \/ Finish(1)

SpecStore == Init /\ [][NextStore]_vars

\* A caller of the Database trait creates, reads, updates and deletes rows,
\* one call at a time, and between the calls remote servers deliver Accepts.
NextCrud ==
    \/ \E a \in ActorRows : CreateActor(1, a)
    \/ \E id \in ActorIds : GetActorById(1, id)
    \/ \E u \in {Bob, Bobby} : GetActorByUsername(1, u)
    \/ \E a \in ActorRows : UpdateActor(1, a)
    \/ \E id \in ActorIds : DeleteActor(1, id)
    \/ \E a \in ActivityRows : CreateActivity(1, a)
    \/ GetActivityById(1, Create1)
    \/ \E n \in NoteRows : CreateNote(1, n)
    \/ GetNoteById(1, Note1)
    \/ DeleteNote(1, Note1)
    \/ \E f \in FollowRows : CreateFollow(1, f)
    \/ \E id \in FollowIds : GetFollowById(1, id)
    \/ \E id \in FollowIds, st \in FollowStatuses : UpdateFollowStatus(1, id, st)
    \/ \E id \in FollowIds : DeleteFollow(1, id)
    \/ \E b \in InboxAccepts : Start(1, "POST inbox", Bob, b)
    \/ GetActor(1)
    \/ InboxUpdateFollow(1)
    \/ Finish(1)

SpecCrud == Init /\ [][NextCrud]_vars

\* The delivery service is called, one call at a time, and the client may
\* return any outcome for each POST.
NextDelivery ==
    \/ \E u \in RemoteInboxes : DeliverActivity(1, u, DeliveredActivity)
    \/ \E l \in TargetLists : DeliverToFollowers(1, DeliveredActivity, l)
    \/ \E l \in TargetLists : DeliverToPublic(1, DeliveredActivity, l)
    \/ \E sent \in SendOutcomes : Send(1, sent)
    \/ Finish(1)

SpecDelivery == Init /\ [][NextDelivery]_vars

\* The same, where a POST that was sent comes back (the client gives up after
\* its timeout) and a call that has returned is taken off.
SpecDeliveryLive ==
    /\ SpecDelivery
    /\ WF_vars(\E sent \in SendOutcomes : Send(1, sent))
    /\ WF_vars(Finish(1))

\* Remote servers post to the inbox, with a Signature header or without, and
\* between the requests the signature service is called on a header.
NextInbound ==
    \/ \E b \in SurfaceInbox, sig \in {None} \cup {Some(h) : h \in SignatureHeaders} :
          Inbound(1, Bob, b, sig)
    \/ \E h \in SignatureHeaders : VerifySignature(1, RequestHeaders, h)
    \/ GetActor(1)
    \/ InboxGetNote(1)
    \/ InboxCreateNote(1)
    \/ InboxCreateActivity(1)
    \/ InboxCreateFollow(1)
    \/ InboxUpdateFollow(1)
    \/ Finish(1)

SpecInbound == Init /\ [][NextInbound]_vars

\* The steps the server takes by itself once a request or a delivery has
\* started.
FanoutStep ==
    \/ GetActor(1)
    \/ OutboxCreateNote(1)
    \/ OutboxCreateActivity(1)
    \/ \E sent \in SendOutcomes : Send(1, sent)
    \/ Finish(1)

\* The operator posts notes to the outbox, and a caller of the delivery
\* service may start a delivery; every step the server can take by itself is
\* taken in the end.
NextFanout ==
    \/ \E b \in FanoutBodies : Begin(1, "POST outbox", Bob, b)
    \/ \E l \in TargetLists : DeliverToFollowers(1, DeliveredActivity, l)
    \/ FanoutStep

SpecFanout == Init /\ [][NextFanout]_vars /\ WF_vars(FanoutStep)

\* Follows delivered to the inbox one at a time, of bob and of others, while
\* time passes; last keeps the store the delivery before left.
NextOtherFollow ==
    \/ \E u \in Usernames, b \in InboxFollows \cup InboxOtherFollows :
          Start(1, "POST inbox", u, b)
    \/ GetActor(1)
    \/ InboxCreateFollow(1)
    \/ Finish(1)
    \/ Tick

SpecOtherFollow == Init /\ [][NextOtherFollow]_vars

\* Creates of Notes with their recipient lists, delivered to the inbox and
\* posted to the outbox one at a time; last keeps the store the request
\* before left.
NextRecipients ==
    \/ \E b \in AddressedBodies(JStr(Create1)) : Start(1, "POST inbox", Bob, b)
    \/ \E b \in AddressedBodies(JAbsent) : Start(1, "POST outbox", Bob, b)
    \/ GetActor(1)
    \/ InboxGetNote(1)
    \/ InboxCreateNote(1)
    \/ InboxCreateActivity(1)
    \/ OutboxCreateNote(1)
    \/ OutboxCreateActivity(1)
    \/ Finish(1)

SpecRecipients == Init /\ [][NextRecipients]_vars

\* The calls of the Database trait on follow relations, with any status.
NextFollowStore ==
    \/ \E f \in AnyFollowRows : CreateFollow(1, f)
    \/ \E id \in FollowIds : GetFollowById(1, id)
    \/ \E id \in FollowIds, st \in AnyStatuses : UpdateFollowStatus(1, id, st)
    \/ \E id \in FollowIds : DeleteFollow(1, id)
    \/ Finish(1)

SpecFollowStore == Init /\ [][NextFollowStore]_vars

\* One connection reads the outbox of bob while another posts to it: the
\* steps of the two handlers interleave at their store calls.
NextOutboxRace ==
    \/ Start(1, "GET outbox", Bob, JAbsent)
    \/ \E b \in OutboxBodies : Start(2, "POST outbox", Bob, b)
    \/ \E r \in Slots : GetActor(r)
    \/ OutboxCount(1)
    \/ OutboxList(1)
    \/ OutboxCreateNote(2)
    \/ OutboxCreateActivity(2)
    \/ \E r \in Slots : Finish(r)

SpecOutboxRace == Init /\ [][NextOutboxRace]_vars

\* Actors are stored, their documents are fetched, and Follows of them are
\* delivered to their inboxes, one request at a time.
NextAdvertised ==
    \/ CreateActor(1, TestUserActor)
    \/ \E u \in {Bob, TestUser} : Start(1, "GET actor", u, JAbsent)
    \/ \E u \in {Bob, TestUser}, b \in AdvertisedFollows :
          Start(1, "POST inbox", u, b)
    \/ GetActor(1)
    \/ InboxCreateFollow(1)
    \/ Finish(1)

SpecAdvertised == Init /\ [][NextAdvertised]_vars

\* Creates and Follows, with and without their ids, delivered to the inbox of
\* bob one at a time.
NextKeys ==
    \/ \E b \in InboxKeyed : Start(1, "POST inbox", Bob, b)
    \/ GetActor(1)
    \/ InboxGetNote(1)
    \/ InboxCreateNote(1)
    \/ InboxCreateActivity(1)
    \/ InboxCreateFollow(1)
    \/ Finish(1)

SpecKeys == Init /\ [][NextKeys]_vars

\* Two requests at a time go through the route closure of ActixServer.
NextAdapter ==
    \/ \E r \in Slots, h \in HandlerIds, w \in Workers : Routed(r, h, w)
    \/ \E r \in Slots : Lock(r)
    \/ \E r \in Slots, result \in HandleResults : Handled(r, result)
    \/ \E r \in Slots : Finish(r)

SpecAdapter == Init /\ [][NextAdapter]_vars

\* ------------------------------------------------------------------ claims

Done(r) == req[r].pc = "done"

StartsWith(s, prefix) ==
    Len(s) >= Len(prefix) /\ SubSeq(s, 1, Len(prefix)) = prefix

\* The request of slot r was dispatched by the inbox handler: the target actor
\* was found.
InboxDispatched(r) ==
    Done(r) /\ req[r].route = "POST inbox" /\ req[r].target.k = "some"

IsCreateNote(body) ==
    /\ get(body, "type") = JStr("Create")
    /\ get(get(body, "object"), "type") = JStr("Note")

\* The store calls among errs that ended in an error of the backend.
BackendErrors(errs) == {e \in errs : e[2] # Duplicate}

\* The delivery that just ended repeats the one before it, and both were
\* answered 202.
Redelivered ==
    /\ InboxDispatched(1)
    /\ IsCreateNote(req[1].body)
    /\ last.route = "POST inbox"
    /\ last.resp.status = 202
    /\ last.user = req[1].user
    /\ last.body = req[1].body

C2_ConcurrentDeliveryNoDuplicates ==
    /\ \A n1 \in notes, n2 \in notes : n1.id = n2.id => n1 = n2
    /\ \A a1 \in activities, a2 \in activities : a1.id = a2.id => a1 = a2
    /\ \A r \in Slots : InboxDispatched(r) => req[r].resp.status = 202

\* Both deliveries found no note and both called create_note: the second was
\* refused as a duplicate.
C2_Witness ==
    /\ InboxDispatched(1) /\ InboxDispatched(2)
    /\ IsCreateNote(req[1].body) /\ IsCreateNote(req[2].body)
    /\ inbox_note_id(req[1].body) = inbox_note_id(req[2].body)
    /\ req[1].errs = {}
    /\ <<"create_note", Duplicate>> \in req[2].errs

\* C3: once the target actor is found, the inbox answers 202, whatever the
\* activity and whether or not a store write failed.
C3_InboxAlwaysAccepted ==
    InboxDispatched(1) => req[1].resp.status = 202

\* A delivery answered 202 although a store call of it failed.
C3_Witness ==
    /\ InboxDispatched(1)
    /\ BackendErrors(req[1].errs) # {}
    /\ req[1].resp.status = 202

\* C4: when the actor lookup finds nothing the handler answers 404 "Actor not
\* found", when it fails the handler answers 500 "Internal server error", and
\* in both cases the store is as it was before the request.
C4_ActorLookupFailure ==
    (Done(1) /\ req[1].target.k = "none") =>
        /\ req[1].route \in {"GET actor", "GET outbox", "POST outbox", "POST inbox"}
        /\ store = last.after
        /\ IF req[1].errs = {}
           THEN /\ req[1].resp = [status |-> 404,
                                  body |-> JObj([error |-> JStr("Actor not found")])]
                /\ \A a \in actors : a.username # req[1].user
           ELSE req[1].resp = [status |-> 500,
                               body |-> JObj([error |-> JStr("Internal server error")])]

\* An outbox POST whose actor lookup failed, after the store was written.
C4_Witness ==
    /\ Done(1)
    /\ req[1].target.k = "none"
    /\ req[1].route = "POST outbox"
    /\ req[1].errs # {}
    /\ notes # {}

\* The Follow of an existing local actor that the inbox has just handled.
FollowHandled ==
    /\ InboxDispatched(1)
    /\ get(req[1].body, "type") = JStr("Follow")
    /\ get(req[1].body, "object") = JStr(req[1].target.v.id)

\* C5: after a Follow of the target actor whose create_follow succeeded, the
\* store holds a relation from the activity's actor to the target, pending,
\* with a fresh id <serverUrl>/follows/<id>.
C5_FollowCreatesPending ==
    (FollowHandled /\ req[1].errs = {}) =>
        \E f \in follows :
            /\ f.follower_id = get(req[1].body, "actor").s
            /\ f.following_id = req[1].target.v.id
            /\ f.status = "pending"
            /\ StartsWith(f.id, ServerUrl \o "/follows/")
            /\ Len(f.id) > Len(ServerUrl \o "/follows/")
            /\ \A g \in last.after.follows : g.id # f.id

C5_Witness ==
    /\ FollowHandled
    /\ req[1].errs = {}
    /\ last.after.follows # {}

\* C6: no two relations that are not rejected join the same follower to the
\* same followed actor.
C6_OneActiveRelationPerPair ==
    \A f \in follows, g \in follows :
        (/\ f.follower_id = g.follower_id
         /\ f.following_id = g.following_id
         /\ f.status # "rejected"
         /\ g.status # "rejected") => f = g

\* The Accept of a pending relation that the inbox has just handled.
AcceptHandled ==
    /\ InboxDispatched(1)
    /\ get(req[1].body, "type") = JStr("Accept")
    /\ is_str(get(get(req[1].body, "object"), "id"))
    /\ \E g \in last.after.follows :
          g.id = get(get(req[1].body, "object"), "id").s /\ g.status = "pending"

AcceptedOnly(id) ==
    /\ \E f \in follows : f.id = id
    /\ \A f \in follows : f.id = id => f.status = "accepted"
    /\ {f.id : f \in follows} = {g.id : g \in last.after.follows}
    /\ \A g \in last.after.follows :
          g.id # id => \A f \in follows : f.id = g.id => f = g

UndoFollowHandled ==
    /\ InboxDispatched(1)
    /\ get(req[1].body, "type") = JStr("Undo")
    /\ get(get(req[1].body, "object"), "type") = JStr("Follow")
    /\ get(get(req[1].body, "object"), "object") = JStr(req[1].target.v.id)

ActiveRelations(rows, follower, following) ==
    {f \in rows : /\ f.follower_id = follower
                  /\ f.following_id = following
                  /\ f.status \in {"pending", "accepted"}}

\* C8: after an Undo of a Follow of the target actor, no pending or accepted
\* relation joins the activity's actor to the target; when there was none the
\* store is unchanged.
C8_UndoFollowRemovesRelation ==
    UndoFollowHandled =>
        /\ ActiveRelations(follows, as_str_or(get(req[1].body, "actor"), ""),
                           req[1].target.v.id) = {}
        /\ ActiveRelations(last.after.follows,
                           as_str_or(get(req[1].body, "actor"), ""),
                           req[1].target.v.id) = {}
              => store = last.after

\* Every relation is observable in one state, pending or accepted.
FollowObservable ==
    /\ \A f \in follows, g \in follows : f.id = g.id => f = g
    /\ \A f \in follows : f.status \in {"pending", "accepted"}

\* A step creates a relation pending, and changes the status of a stored one
\* from pending to accepted only.
FollowLifecycleStep ==
    \A f2 \in follows' :
        IF \E f \in follows : f.id = f2.id
        THEN \A f \in follows :
                f.id = f2.id =>
                    \/ f.status = f2.status
                    \/ f.status = "pending" /\ f2.status = "accepted"
        ELSE f2.status = "pending"

\* C9: over every sequence of requests, a follow relation is created pending,
\* its status changes only from pending to accepted, and at every moment it is
\* in exactly one of pending, accepted, absent.
C9_FollowLifecycle == []FollowObservable /\ [][FollowLifecycleStep]_vars

\* A relation that was created pending and is accepted, and an activity in
\* the outbox.
C9_Witness ==
    /\ \E f \in follows : f.status = "accepted"
    /\ \E a \in activities : a.actor_id = BobId

\* The outbox POST of a Create/Note for a stored actor, both of whose store
\* writes succeeded.
OutboxCreated ==
    /\ Done(1)
    /\ req[1].route = "POST outbox"
    /\ req[1].target.k = "some"
    /\ IsCreateNote(req[1].body)
    /\ req[1].errs = {}

OutboxPosted ==
    /\ Done(1)
    /\ req[1].route = "POST outbox"
    /\ req[1].target.k = "some"
    /\ IsCreateNote(req[1].body)

\* The request before the current one was the same outbox POST, answered 201
\* with the activity it created.
OutboxReposted ==
    /\ OutboxPosted
    /\ last.route = "POST outbox"
    /\ last.user = req[1].user
    /\ last.body = req[1].body
    /\ last.resp.status = 201

\* C11: an outbox POST of a Create/Note whose store calls meet no backend error
\* is answered 201 with an activity id and a note id that no activity and no
\* note of the store had before; posted a second time, the same body gives a
\* second activity and a second note, with ids other than the first ones.
C11_OutboxMintsFreshIds ==
    (OutboxPosted /\ BackendErrors(req[1].errs) = {}) =>
        LET id == get(req[1].resp.body, "id")
            note_id == get(get(req[1].resp.body, "object"), "id")
            first_id == get(last.resp.body, "id")
            first_note_id == get(get(last.resp.body, "object"), "id")
        IN  /\ req[1].resp.status = 201
            /\ is_str(id) /\ is_str(note_id)
            /\ \A a \in last.after.activities : a.id # id.s
            /\ \A n \in last.after.notes : n.id # note_id.s
            /\ \A n \in last.after.activities : n.id # note_id.s
            /\ \A a \in last.after.notes : a.id # id.s
            /\ OutboxReposted =>
                  /\ id # first_id
                  /\ note_id # first_note_id
                  /\ {a \in activities : JStr(a.id) \in {id, first_id}}
                        \in {x \in SUBSET activities : Cardinality(x) = 2}
                  /\ {n \in notes : JStr(n.id) \in {note_id, first_note_id}}
                        \in {x \in SUBSET notes : Cardinality(x) = 2}

\* The same Create/Note posted twice, both times stored.
C11_Witness ==
    /\ OutboxReposted
    /\ req[1].errs = {}
    /\ req[1].resp.status = 201
    /\ Cardinality(notes) >= 2
    /\ Cardinality(activities) >= 2

\* A GET of the outbox of a stored actor was answered 200.
OutboxListed ==
    /\ Done(1)
    /\ req[1].route = "GET outbox"
    /\ req[1].resp.status = 200

\* The items of the listing, and the places of the item with a given id.
ListedItems == get(req[1].resp.body, "orderedItems").a

Places(id) == {i \in DOMAIN ListedItems : get(ListedItems[i], "id") = JStr(id)}

C13_OutboxNoPartialWrite ==
    (OutboxPosted /\ req[1].errs # {}) =>
        /\ req[1].resp.status = 500
        /\ \A n \in notes : n.id # req[1].loc.note_id
        /\ \A a \in activities : a.id # req[1].loc.activity_id

\* An outbox POST for a stored actor whose body is not a Create of a Note has
\* ended.
OutboxOtherPosted ==
    /\ Done(1)
    /\ req[1].route = "POST outbox"
    /\ req[1].target.k = "some"
    /\ ~IsCreateNote(req[1].body)

\* C14: such a POST is answered 201 with no body, and leaves the store as it
\* was when the request arrived.
C14_OutboxOtherAccepted ==
    OutboxOtherPosted =>
        /\ req[1].resp = [status |-> 201, body |-> JAbsent]
        /\ store = last.after

\* A Create whose object is not a Note was posted to an outbox that already
\* holds a post.
C14_Witness ==
    /\ OutboxOtherPosted
    /\ get(req[1].body, "type") = JStr("Create")
    /\ req[1].resp.status = 201
    /\ activities # {}

\* A WebFinger query has been answered; the resource it asked for.
WebfingerDone == Done(1) /\ req[1].route = "GET webfinger"

EndsWith(s, suffix) ==
    Len(s) >= Len(suffix) /\ SubSeq(s, Len(s) - Len(suffix) + 1, Len(s)) = suffix

\* serverUrl with its scheme removed.
ServerHost ==
    IF StartsWith(ServerUrl, "http://") THEN SubSeq(ServerUrl, 8, Len(ServerUrl))
    ELSE IF StartsWith(ServerUrl, "https://") THEN SubSeq(ServerUrl, 9, Len(ServerUrl))
    ELSE ServerUrl

\* resource is acct:<user>@<host> with the host of the server; the user then.
AcctOfServer(resource) ==
    /\ StartsWith(resource, "acct:")
    /\ EndsWith(resource, "@" \o ServerHost)
    /\ Len(resource) >= Len("acct:") + Len("@" \o ServerHost)

AcctUser(resource) ==
    SubSeq(resource, Len("acct:") + 1, Len(resource) - Len("@" \o ServerHost))

\* The hrefs of the links with rel "self" and type application/activity+json.
SelfHrefs(body) ==
    LET links == get(body, "links") IN
    IF links.k # "arr" THEN {}
    ELSE {get(links.a[i], "href").s : i \in
             {j \in DOMAIN links.a :
                 /\ get(links.a[j], "rel") = JStr("self")
                 /\ get(links.a[j], "type") = JStr("application/activity+json")}}

\* C15: WebFinger answers 200 exactly for the resources acct:<user>@<host> with
\* the host of the server, and 404 with no body for every other one; on 200
\* the subject is the resource and a self link of type
\* application/activity+json leads to <serverUrl>/users/<user>.
C15_WebfingerResolves ==
    WebfingerDone =>
        LET resource == req[1].body.s IN
        IF AcctOfServer(resource)
        THEN /\ req[1].resp.status = 200
             /\ get(req[1].resp.body, "subject") = JStr(resource)
             /\ ServerUrl \o "/users/" \o AcctUser(resource)
                   \in SelfHrefs(req[1].resp.body)
        ELSE req[1].resp = [status |-> 404, body |-> JAbsent]

\* The query for a user whose name holds an '@' was answered 200.
C15_Witness ==
    /\ WebfingerDone
    /\ req[1].body = JStr("acct:a@b@localhost:8080")
    /\ req[1].resp.status = 200

\* The GET of an actor document that follows a WebFinger answer whose self
\* link leads to it, for a user with no stored actor.
Dereferenced ==
    /\ Done(1)
    /\ req[1].route = "GET actor"
    /\ last.route = "GET webfinger"
    /\ last.resp.status = 200
    /\ ServerUrl \o "/users/" \o req[1].user \in SelfHrefs(last.resp.body)
    /\ ~ \E a \in actors : a.username = req[1].user

\* WebFinger answers 200 with the self link for every user of the server's
\* host, stored or not.
ResolvedUnseen ==
    (WebfingerDone /\ AcctOfServer(req[1].body.s)) =>
        /\ req[1].resp.status = 200
        /\ ServerUrl \o "/users/" \o AcctUser(req[1].body.s)
              \in SelfHrefs(req[1].resp.body)

\* C16 as stated: WebFinger answers 200 with a self link for a user with no
\* stored actor, and the GET of that link that follows is answered 404.
C16_WebfingerThenNotFound ==
    /\ ResolvedUnseen
    /\ Dereferenced => req[1].resp.status = 404

\* C16 amended: the GET of that link is answered 404 when the lookup of the
\* actor succeeds, and 500 when it fails.
C16_WebfingerThenNotFoundOrError ==
    /\ ResolvedUnseen
    /\ Dereferenced =>
          req[1].resp.status = IF req[1].errs = {} THEN 404 ELSE 500

\* The self link WebFinger gave for an unknown user was dereferenced and not
\* found.
C16_Witness ==
    /\ Dereferenced
    /\ last.body = JStr("acct:ghost@localhost:8080")
    /\ req[1].resp.status = 404

\* The GET of the actor document of a stored actor was answered 200.
ActorServed ==
    /\ Done(1)
    /\ req[1].route = "GET actor"
    /\ req[1].resp.status = 200

\* C17: the document served for a stored username U has type Person,
\* preferredUsername = U, id = serverUrl/users/U, inbox and outbox under the
\* id, and a publicKey with id = id#main-key and owner = id.
C17_ActorDocument ==
    ActorServed =>
        LET doc == req[1].resp.body
            id == ServerUrl \o "/users/" \o req[1].user
        IN  /\ get(doc, "type") = JStr("Person")
            /\ get(doc, "preferredUsername") = JStr(req[1].user)
            /\ get(doc, "id") = JStr(id)
            /\ get(doc, "inbox") = JStr(id \o "/inbox")
            /\ get(doc, "outbox") = JStr(id \o "/outbox")
            /\ get(get(doc, "publicKey"), "id") = JStr(id \o "#main-key")
            /\ get(get(doc, "publicKey"), "owner") = JStr(id)

\* C18 as stated: every answer with a status of 400 or more, of any endpoint,
\* has a body that is a JSON object with a string field error.
C18_ErrorBodies ==
    (Done(1) /\ req[1].resp.status >= 400) =>
        /\ req[1].resp.body.k = "obj"
        /\ is_str(get(req[1].resp.body, "error"))

\* C18 amended: so it is for the actor, outbox and inbox endpoints; the 404
\* of WebFinger has no body.
C18_ErrorBodiesButWebfinger ==
    (Done(1) /\ req[1].resp.status >= 400) =>
        IF req[1].route = "GET webfinger"
        THEN req[1].resp = [status |-> 404, body |-> JAbsent]
        ELSE /\ req[1].resp.body.k = "obj"
             /\ is_str(get(req[1].resp.body, "error"))
             /\ DOMAIN req[1].resp.body.o = {"error"}

\* An outbox POST failed in its second write.
C18_Witness ==
    /\ Done(1)
    /\ req[1].route = "POST outbox"
    /\ req[1].resp.status = 500
    /\ <<"create_activity", Backend>> \in req[1].errs

\* A query of the store has returned rows, or a count.
Queried(call) ==
    /\ Done(1)
    /\ req[1].route = call
    /\ req[1].resp.body.k = "ok"

Elements(l) == {l[i] : i \in DOMAIN l}

\* The activities that name actor_id among their to or cc recipients.
AddressedTo(actor_id) ==
    {a \in activities :
        actor_id \in Elements(a.to_recipients) \cup Elements(a.cc_recipients)}

\* C19: get_inbox_activities lists, and get_actor_inbox_count counts, exactly
\* the activities one of whose to or cc recipients is the actor id itself.
C19_InboxExactRecipient ==
    /\ Queried("get_inbox_activities") =>
          Elements(req[1].resp.body.v) = AddressedTo(req[1].user)
    /\ Queried("get_actor_inbox_count") =>
          req[1].resp.body.v = Cardinality(AddressedTo(req[1].user))

\* The accepted relations towards an actor, and from an actor, among rows.
AcceptedTowards(rows, actor_id) ==
    {f \in rows : f.following_id = actor_id /\ f.status = "accepted"}

AcceptedFrom(rows, actor_id) ==
    {f \in rows : f.follower_id = actor_id /\ f.status = "accepted"}

\* C20: get_followers and get_actor_followers_count cover exactly the
\* accepted relations towards the actor, get_following and
\* get_actor_following_count the accepted ones from the actor; and a Follow
\* handled by the inbox leaves the accepted relations of every actor as they
\* were.
C20_FollowersAcceptedOnly ==
    /\ Queried("get_followers") =>
          /\ Elements(req[1].resp.body.v) = AcceptedTowards(follows, req[1].user)
          /\ Len(req[1].resp.body.v) = Cardinality(AcceptedTowards(follows, req[1].user))
    /\ Queried("get_actor_followers_count") =>
          req[1].resp.body.v = Cardinality(AcceptedTowards(follows, req[1].user))
    /\ Queried("get_following") =>
          /\ Elements(req[1].resp.body.v) = AcceptedFrom(follows, req[1].user)
          /\ Len(req[1].resp.body.v) = Cardinality(AcceptedFrom(follows, req[1].user))
    /\ Queried("get_actor_following_count") =>
          req[1].resp.body.v = Cardinality(AcceptedFrom(follows, req[1].user))
    /\ (InboxDispatched(1) /\ get(req[1].body, "type") = JStr("Follow")) =>
          \A a \in QueryActors :
              /\ AcceptedTowards(follows, a) = AcceptedTowards(last.after.follows, a)
              /\ AcceptedFrom(follows, a) = AcceptedFrom(last.after.follows, a)

\* The followers of an actor were listed while another relation towards it
\* was pending.
C20_Witness ==
    /\ Queried("get_followers")
    /\ req[1].resp.body.v # <<>>
    /\ \E f \in follows : f.following_id = req[1].user /\ f.status = "pending"

\* A call of the Database trait has returned.
Called(call) == Done(1) /\ req[1].route = call

\* The id the call names is not stored in the table the call works on.
Missing(rows) == \A x \in rows : x.id # req[1].user

\* What a write to a table returns when it succeeds and changes nothing.
NoOp(rows) == [res |-> Ok(Unit), rows |-> rows]

\* The reads, updates and deletes of the Database trait treat a missing row
\* as no error, whatever the tables hold.
MissingRowTotal ==
    /\ \A id \in ActorIds :
          (\A a \in actors : a.id # id) =>
              /\ get_actor_by_id(id, "none") = Ok(None)
              /\ delete_actor(id, "none") = NoOp(actors)
    /\ \A a \in ActorRows :
          (\A b \in actors : b.id # a.id) => update_actor(a, "none") = NoOp(actors)
    /\ \A u \in {Bob, Bobby} :
          (\A a \in actors : a.username # u) =>
              get_actor_by_username(u, "none") = Ok(None)
    /\ activities = {} => get_activity_by_id(Create1, "none") = Ok(None)
    /\ notes = {} =>
          /\ get_note_by_id(Note1, "none") = Ok(None)
          /\ delete_note(Note1, "none") = NoOp(notes)
    /\ \A id \in FollowIds :
          (\A f \in follows : f.id # id) =>
              /\ get_follow_by_id(id, "none") = Ok(None)
              /\ delete_follow(id, "none") = NoOp(follows)
              /\ \A st \in FollowStatuses :
                    update_follow_status(id, st, clock, "none") = NoOp(follows)

\* The table a call works on, as it was when the call was made.
TableOf(call) ==
    CASE call \in {"get_actor_by_id", "update_actor", "delete_actor"} ->
            last.after.actors
      [] call = "get_activity_by_id" -> last.after.activities
      [] call \in {"get_note_by_id", "delete_note"} -> last.after.notes
      [] OTHER -> last.after.follows

MissingRowCalls ==
    {"get_actor_by_id", "update_actor", "delete_actor", "get_activity_by_id",
     "get_note_by_id", "delete_note", "get_follow_by_id",
     "update_follow_status", "delete_follow"}

\* A call has returned that named an id, or a username, no row has.
CalledOnMissingRow ==
    \/ \E c \in MissingRowCalls : Called(c) /\ Missing(TableOf(c))
    \/ /\ Called("get_actor_by_username")
       /\ \A a \in last.after.actors : a.username # req[1].user

\* An Accept was handled whose object names a follow id no relation has.
AcceptOfUnknownHandled ==
    /\ InboxDispatched(1)
    /\ get(req[1].body, "type") = JStr("Accept")
    /\ is_str(get(get(req[1].body, "object"), "id"))
    /\ \A g \in last.after.follows :
          g.id # get(get(req[1].body, "object"), "id").s

\* C21: a read of a missing row gives an empty optional, and an update or a
\* delete of a missing id gives success; a call on a missing row that has
\* returned gave NotFound in no case, gave an error only when the backend
\* failed, and left all four tables as they were; an inbox Accept that names
\* an unknown follow id is answered 202 and leaves the store as it was.
C21_MissingRowIsNoError ==
    /\ MissingRowTotal
    /\ CalledOnMissingRow =>
          /\ req[1].resp.body.k = "err" => req[1].resp.body.e = Backend
          /\ req[1].resp.body.k = "ok" =>
                req[1].resp.body.v = IF StartsWith(req[1].route, "get_")
                                     THEN None ELSE Unit
          /\ tables = last.after
    /\ AcceptOfUnknownHandled =>
          /\ req[1].resp.status = 202
          /\ store = last.after

\* update_follow_status has returned success for an id no relation has,
\* while another relation was stored.
C21_Witness ==
    /\ Called("update_follow_status")
    /\ Missing(last.after.follows)
    /\ req[1].resp.body = Ok(Unit)
    /\ follows # {}

CreateCalls == {"create_actor", "create_activity", "create_note", "create_follow"}

\* The table a create call inserts into, as it was when the call was made.
CreateTableOf(call) ==
    CASE call = "create_actor" -> last.after.actors
      [] call = "create_activity" -> last.after.activities
      [] call = "create_note" -> last.after.notes
      [] OTHER -> last.after.follows

\* A create call has returned, without a failure of the backend, that passed
\* an id its table held, or an actor with a username in use.
CreatedDuplicate ==
    /\ \E c \in CreateCalls :
          /\ Called(c)
          /\ \/ ~Missing(CreateTableOf(c))
             \/ /\ c = "create_actor"
                /\ \E a \in last.after.actors :
                      a.username = req[1].loc.row.v.username
    /\ req[1].resp.body # Err(Backend)

\* C22: a create call with an id already stored for its entity kind, or
\* create_actor with a username in use, fails with AlreadyExists and leaves
\* all four tables as they were; no two stored actors share a username.
C22_DuplicateCreateAlreadyExists ==
    /\ CreatedDuplicate =>
          /\ req[1].resp.body = Err("AlreadyExists")
          /\ tables = last.after
    /\ \A a \in actors, b \in actors : a.username = b.username => a = b

\* The POST deliver_activity sent, once it has returned.
ThePost == req[1].posts[1]

\* C23: deliver_activity returns normally whatever the outcome of its POST:
\* a 2xx response, another response, or an error of the client.
C23_DeliveryNeverPropagates ==
    Called("deliver_activity") => req[1].resp.body.k = "ok"

\* C25: what deliver_activity returns to its caller for a response with status
\* s tells success from failure: it is the success value exactly when
\* 200 <= s < 300.
C25_DeliveryReportsByStatus ==
    (Called("deliver_activity") /\ ThePost.sent.k = "ok") =>
        (req[1].resp.body = Ok(Unit) <=> (200 <= ThePost.sent.v /\ ThePost.sent.v < 300))

MultiTarget == {"deliver_to_followers", "deliver_to_public"}

\* A call of deliver_to_followers or deliver_to_public has returned.
DeliveredToAll == Done(1) /\ req[1].route \in MultiTarget

\* Such a call is between two POSTs.
Delivering == req[1].pc = "send" /\ req[1].route \in MultiTarget

\* While such a call runs it has posted once to each inbox it has passed, in
\* order; when it has returned it has posted the activity once to each inbox
\* of its list and returns Ok(()).
OnePostPerTarget ==
    /\ Delivering =>
          /\ req[1].inboxes = [i \in 1..Len(req[1].posts) |-> req[1].posts[i].url]
                                  \o req[1].targets
          /\ req[1].targets # <<>>
    /\ DeliveredToAll =>
          /\ req[1].resp.body = Ok(Unit)
          /\ Len(req[1].posts) = Len(req[1].inboxes)
          /\ \A i \in 1..Len(req[1].inboxes) :
                /\ req[1].posts[i].url = req[1].inboxes[i]
                /\ req[1].posts[i].body = req[1].body

\* C24: a delivery to a list of inboxes posts exactly once to each element
\* of the list, whatever the outcomes of the earlier POSTs, returns Ok(()),
\* also for the empty list, with no POST, and every such call returns.
C24_MultiTargetDelivery ==
    /\ []OnePostPerTarget
    /\ (Delivering ~> DeliveredToAll)

\* A delivery to a list has returned after its first POST met an error of
\* the client and its second a 500.
C24_Witness ==
    /\ DeliveredToAll
    /\ Len(req[1].inboxes) >= 2
    /\ req[1].posts[1].sent.k = "err"
    /\ req[1].posts[2].sent = Ok(500)

\* The keys of the fields of a Signature header: what stands before the
\* first "=" of each part between commas, white space aside.
FieldKeys(header) ==
    LET parts == split(header, ",") IN
    {splitn2(trim(parts[i]), "=")[1] :
        i \in {j \in DOMAIN parts : Len(splitn2(trim(parts[j]), "=")) = 2}}

\* C26: verify_signature answers Invalid for a header without a keyId field
\* or without a signature field, and Valid for the header of the tests with a
\* field no rule names added to it.
C26_VerifyRequiresFields ==
    Called("verify_signature") =>
        LET header == req[1].body.s
            verdict == req[1].resp.body
        IN  /\ ~({"keyId", "signature"} \subseteq FieldKeys(header)) =>
                  verdict.k = "ok" /\ verdict.v.k = "Invalid"
            /\ {"keyId", "signature", "created"} \subseteq FieldKeys(header) =>
                  verdict = Ok(Valid)

\* C27: a POST to the inbox has made no call to the store unless its
\* Signature header was verified and found Valid.
C27_VerifiedBeforeStore ==
    (req[1].route = "POST inbox" /\ req[1].pc # "get_actor") =>
        req[1].verification = Some(Valid)

\* A delivery has sent a POST.
DeliveryAttempted ==
    /\ req[1].route \in {"deliver_activity"} \cup MultiTarget
    /\ req[1].posts # <<>>

\* C28: after an outbox POST of a Create/Note whose writes succeeded, a
\* delivery sends a POST in the end.
C28_OutboxLeadsToDelivery == OutboxCreated ~> DeliveryAttempted

\* C29: no request holds the handlers mutex while it is suspended in its
\* handler, and no request is kept from starting its handler for good by the
\* suspension of another.
C29_NoLockAcrossAwait ==
    \A r \in Slots :
        /\ req[r].pc = "handle" => ~holds_handlers_lock(r)
        /\ req[r].pc # "deadlock"

\* The request of slot r was a Follow dispatched by the inbox handler, and
\* its object is not the stored id of the target actor.
FollowOfOther(r) ==
    /\ InboxDispatched(r)
    /\ get(req[r].body, "type") = JStr("Follow")
    /\ get(req[r].body, "object") # JStr(req[r].target.v.id)

\* C30: an inbox Follow whose object is not the stored id of the target
\* actor (another URI, no object, an object that is no string) is answered
\* 202, builds and creates no follow relation and leaves the store as it was.
C30_FollowOfOtherIgnored ==
    FollowOfOther(1) =>
        /\ req[1].resp.status = 202
        /\ req[1].loc.row = None
        /\ \A e \in req[1].errs : e[1] # "create_follow"
        /\ "info: created follow" \notin req[1].log
        /\ store = last.after

\* A Follow without an object was answered while the store held a follow.
C30_Witness ==
    /\ FollowOfOther(1)
    /\ get(req[1].body, "object") = JAbsent
    /\ follows # {}
    /\ req[1].resp.status = 202

\* The inbox has just handled an Accept whose object is a bare string, the id
\* of a relation that was stored as pending.
BareAcceptHandled ==
    /\ InboxDispatched(1)
    /\ get(req[1].body, "type") = JStr("Accept")
    /\ is_str(get(req[1].body, "object"))
    /\ \E g \in last.after.follows :
          g.id = get(req[1].body, "object").s /\ g.status = "pending"

\* C31: an Accept whose object is the follow URI as a bare string, the id of
\* a stored pending relation, leaves that relation accepted and every other
\* relation as it was, when no store call of the request failed: as an Accept
\* whose object is a document with that id does.
C31_BareAcceptTransitions ==
    (BareAcceptHandled /\ req[1].errs = {}) =>
        AcceptedOnly(get(req[1].body, "object").s)

\* The recipients a payload lists under key: none when the key is absent.
Listed(v, key) ==
    LET l == get(v, key) IN
    IF l = JAbsent THEN <<>> ELSE [i \in 1..Len(l.a) |-> l.a[i].s]

\* The row has the recipient lists of v.
AddressedAs(row, v) ==
    /\ row.to_recipients = Listed(v, "to")
    /\ row.cc_recipients = Listed(v, "cc")

\* The notes and the activities the request of slot 1 has stored.
NewNotes == notes \ last.after.notes

NewActivities == activities \ last.after.activities

\* The request of slot 1 was a Create of a Note that the inbox, or the outbox,
\* has handled for a stored actor.
CreateHandledBy(route) ==
    /\ Done(1)
    /\ req[1].route = route
    /\ req[1].target.k = "some"
    /\ IsCreateNote(req[1].body)

\* C32: the note the inbox stores for a Create has the to and cc of the inner
\* object and the activity it stores has the to and cc of the activity, in
\* the same order; the note and the activity the outbox stores have the to
\* and cc of the posted payload; an empty or absent list is stored as the
\* empty list; and when no store call fails the rows are stored.
C32_RecipientsPreserved ==
    /\ CreateHandledBy("POST inbox") =>
          /\ \A n \in NewNotes : AddressedAs(n, get(req[1].body, "object"))
          /\ \A a \in NewActivities : AddressedAs(a, req[1].body)
          /\ (req[1].errs = {} /\ last.after.notes = {}) => NewNotes # {}
          /\ req[1].errs = {} => NewActivities # {}
    /\ CreateHandledBy("POST outbox") =>
          /\ \A n \in NewNotes : AddressedAs(n, req[1].body)
          /\ \A a \in NewActivities : AddressedAs(a, req[1].body)
          /\ req[1].errs = {} => NewNotes # {} /\ NewActivities # {}

\* The inbox has stored a note and an activity whose recipients differ, next
\* to what an outbox post had stored.
C32_Witness ==
    /\ CreateHandledBy("POST inbox")
    /\ req[1].errs = {}
    /\ \E n \in NewNotes, a \in NewActivities :
          /\ n.to_recipients = <<BobId, Public>>
          /\ a.to_recipients = <<Public, BobId>>
          /\ a.cc_recipients = <<BobId, BobId>>
    /\ last.after.notes # {}

\* C33: whatever calls the Entity Store has served, every stored follow
\* relation has a status among pending, accepted and rejected.
C33_FollowStatusDomain ==
    \A f \in follows : f.status \in {"pending", "accepted", "rejected"}

\* C34: for every stored activity of type Create that a handler has written,
\* a note with the id of the activity's object is stored too, also when
\* get_note_by_id or create_note has failed during the delivery.
C34_CreateHasItsNote ==
    \A a \in activities :
        a.activity_type = "Create" =>
            \E n \in notes : JStr(n.id) = get(a.object, "id")

\* The inbox has just handled, with no failed store call, an Accept whose
\* object is a document with the id of the Follow activity, while a relation
\* that a Follow with that id had created was stored as pending.
AcceptOfFollowActivityHandled ==
    /\ InboxDispatched(1)
    /\ get(req[1].body, "type") = JStr("Accept")
    /\ get(get(req[1].body, "object"), "id") = JStr(Follow1)
    /\ req[1].errs = {}
    /\ \E g \in last.after.follows : g.status = "pending"

\* C35: after a Follow with activity id I has created a pending relation, an
\* Accept whose object.id is I leaves a relation that was pending accepted.
C35_AcceptByFollowActivityId ==
    AcceptOfFollowActivityHandled =>
        \E g \in last.after.follows, f \in follows :
            g.status = "pending" /\ f.id = g.id /\ f.status = "accepted"

\* C36: a relation that was pending is accepted only by a request of the
\* actor it follows: no inbox POST whose actor is the follower or a third
\* party makes it accepted.
C36_AcceptedOnlyByFollowed ==
    \A g \in last.after.follows, f \in follows :
        (g.status = "pending" /\ f.id = g.id /\ f.status = "accepted") =>
            get(req[1].body, "actor") = JStr(g.following_id)

\* C37: in every answer of GET outbox, whatever outbox POSTs of the same
\* actor ran between its store calls, orderedItems holds no more items than
\* totalItems says, and as many as the smaller of totalItems and the page
\* size.
C37_OutboxItemsWithinTotal ==
    OutboxListed =>
        /\ Len(ListedItems) <= get(req[1].resp.body, "totalItems").n
        /\ Len(ListedItems) = Min(get(req[1].resp.body, "totalItems").n, PageSize)

\* The inbox has just handled, with no failed store call, a Follow whose
\* object is the id that the document of the target actor carries.
FollowOfAdvertisedHandled ==
    /\ InboxDispatched(1)
    /\ get(req[1].body, "type") = JStr("Follow")
    /\ get(req[1].body, "object") = get(actor_document(req[1].target.v, clock), "id")
    /\ req[1].errs = {}

\* C38: the document served for a stored actor carries the actor's stored id,
\* and a Follow whose object is the id of the document creates a pending
\* relation towards the stored actor.
C38_AdvertisedIdIsStoredId ==
    /\ ActorServed => get(req[1].resp.body, "id") = JStr(req[1].target.v.id)
    /\ FollowOfAdvertisedHandled =>
          \E f \in follows \ last.after.follows :
              f.status = "pending" /\ f.following_id = req[1].target.v.id

\* C39: the inbox stores no note and no activity with an empty id and no
\* follow relation with an empty follower_id, also for a payload without
\* object.id, without an id or without an actor.
C39_NoEmptyKeys ==
    /\ \A n \in notes : n.id # ""
    /\ \A a \in activities : a.id # ""
    /\ \A f \in follows : f.follower_id # ""

\* The request a step of the server belongs to: the one that arrives with
\* the step, or the one in progress.
Stepping == IF req[1].pc = "idle" THEN req'[1] ELSE req[1]

\* What a step of a handler leaves alone.
HandlerFrame ==
    LET q == Stepping
        ty == get(q.body, "type")
    IN  /\ actors' = actors
        /\ notes \subseteq notes'
        /\ activities \subseteq activities'
        /\ q.route \in {"GET webfinger", "GET actor", "GET outbox"} =>
              store' = store
        /\ (q.route \in {"POST inbox", "POST outbox"} /\ ty = JStr("Create")) =>
              follows' = follows
        /\ (q.route = "POST inbox" /\ ty \in {JStr("Follow"), JStr("Accept")}) =>
              notes' = notes /\ activities' = activities

\* C40: WebFinger, GET actor and GET outbox write nothing; an inbox or outbox
\* Create leaves the follow relations as they are; an inbox Follow or Accept
\* leaves the notes and the activities as they are; and no handler creates,
\* updates or deletes an actor or removes a note or an activity.
C40_HandlerFrames == [][HandlerFrame]_vars

\* An Accept has made a relation accepted while notes and activities are
\* stored.
C40_Witness ==
    /\ InboxDispatched(1)
    /\ get(req[1].body, "type") = JStr("Accept")
    /\ follows # last.after.follows
    /\ notes # {}
    /\ activities # {}

====
